---- MODULE Spec2Model ----
(***************************************************************************)
(* State-machine model of the execution coordination layer of go-job:      *)
(* the TaskCommander pipeline (validation, idempotency, quota,             *)
(* concurrency, retry/backoff) and the CronManager schedule lifecycle.     *)
(* Durations are counted in milliseconds.                                  *)
(***************************************************************************)
EXTENDS Integers, Sequences, FiniteSets, TLC

\* ---------------------------------------------------------------- bounds
\* largest Retries value a task configuration declares
MaxRetries == 1
\* largest MaxConcurrency value a message overrides the task default with
MaxLimit == 2

\* ------------------------------------------------------ program constants
MaxIdempotencyKeyLength == 256
defaultBackoffInterval == 100
defaultBackoffMaxInterval == 5000
\* BasicQuotaChecker{PayloadSizeLimit: 8} as wired in the quota test
PayloadSizeLimit == 8

\* the concurrent TaskCommander.Execute calls
Calls == {1, 2}

\* ------------------------------------------------------------ error values
Sentinel(k) == [kind |-> k, call |-> 0, attempt |-> 0]
Nil == Sentinel("nil")
ErrIdempotentDrop == Sentinel("ErrIdempotentDrop")
ErrConcurrencyLimit == Sentinel("ErrConcurrencyLimit")
ErrQuotaExceeded == Sentinel("ErrQuotaExceeded")
ErrMsgInvalid == Sentinel("JOB_EXEC_MSG_INVALID")
ErrCtx == Sentinel("context.Canceled")
\* the error returned by the task for attempt a of call c
EngineErr(c, a) == [kind |-> "engine", call |-> c, attempt |-> a]
\* no tracker entry for a key / call has not returned yet
NoEntry == Sentinel("absent")
Pending == Sentinel("pending")

\* ------------------------------------------------------------- idempotency
DedupPolicyIgnore == "ignore"
DedupPolicyDrop == "drop"
DedupPolicyMerge == "merge"
DedupPolicyReplace == "replace"

dedupProceed == "proceed"
dedupDrop == "drop"
dedupMerge == "merge"

IdemKeys == {"k1"}

isValidDedupPolicy(policy) ==
    policy \in {"", DedupPolicyIgnore, DedupPolicyDrop, DedupPolicyMerge, DedupPolicyReplace}

\* a pre-check that treats replace like drop
BeforeExecuteReplaceDrops(ents, key, policy) ==
    IF key = "" \/ policy = "" \/ policy = DedupPolicyIgnore
    THEN [decision |-> dedupProceed, err |-> Nil, entries |-> ents]
    ELSE IF ents[key] = NoEntry
    THEN [decision |-> dedupProceed, err |-> Nil, entries |-> [ents EXCEPT ![key] = Nil]]
    ELSE IF policy = DedupPolicyDrop \/ policy = DedupPolicyReplace
    THEN [decision |-> dedupDrop, err |-> ents[key], entries |-> ents]
    ELSE IF policy = DedupPolicyMerge
    THEN [decision |-> dedupMerge, err |-> ents[key], entries |-> ents]
    ELSE [decision |-> dedupProceed, err |-> Nil, entries |-> ents]

\* IdempotencyTracker.BeforeExecute: decision, prior error and the new entries map
BeforeExecute(ents, key, policy) ==
    IF key = "" \/ policy = "" \/ policy = DedupPolicyIgnore
    THEN [decision |-> dedupProceed, err |-> Nil, entries |-> ents]
    ELSE IF ents[key] = NoEntry
    THEN [decision |-> dedupProceed, err |-> Nil, entries |-> [ents EXCEPT ![key] = Nil]]
    ELSE IF policy = DedupPolicyDrop
    THEN [decision |-> dedupDrop, err |-> ents[key], entries |-> ents]
    ELSE IF policy = DedupPolicyMerge
    THEN [decision |-> dedupMerge, err |-> ents[key], entries |-> ents]
    ELSE IF policy = DedupPolicyReplace
    THEN [decision |-> dedupProceed, err |-> Nil, entries |-> [ents EXCEPT ![key] = Nil]]
    ELSE [decision |-> dedupProceed, err |-> Nil, entries |-> ents]

\* a write-back that ignores the policy
AfterExecuteAnyPolicy(ents, key, policy, execErr) ==
    IF key = "" THEN ents ELSE [ents EXCEPT ![key] = execErr]

\* IdempotencyTracker.AfterExecute: the entries map after the write-back
AfterExecute(ents, key, policy, execErr) ==
    IF key = "" \/ policy = "" \/ policy = DedupPolicyIgnore
    THEN ents
    ELSE [ents EXCEPT ![key] = execErr]

\* ------------------------------------------------------------------- quota
\* a checker that lets every payload through
QuotaCheckNoPayloadLimit(m) == Nil

\* BasicQuotaChecker.Check with MaxRetries left at its zero value
QuotaCheck(m) ==
    IF PayloadSizeLimit > 0 /\ m.payloadSize > PayloadSizeLimit
    THEN ErrQuotaExceeded
    ELSE Nil

\* ------------------------------------------------------------- concurrency
TaskID == "job-1"
ConcKeys == {TaskID}
NoChan == [cap |-> 0, len |-> 0]

\* ConcurrencyLimiter.Acquire: the channel of the key is created with the
\* capacity of the first limit seen, then a non-blocking send is tried
Acquire(s, key, limit) ==
    LET ch == IF s[key] = NoChan THEN [cap |-> limit, len |-> 0] ELSE s[key]
    IN  IF ch.len < ch.cap
        THEN [err |-> Nil, sem |-> [s EXCEPT ![key] = [ch EXCEPT !.len = @ + 1]]]
        ELSE [err |-> ErrConcurrencyLimit, sem |-> [s EXCEPT ![key] = ch]]

\* a release closure that forgets its receive
ReleaseNoReceive(s, key) == s

\* the release closure returned by Acquire: one receive from the channel
Release(s, key) == [s EXCEPT ![key] = [@ EXCEPT !.len = @ - 1]]

\* ----------------------------------------------------------- retry/backoff
BackoffNone == "none"
BackoffFixed == "fixed"
BackoffExponential == "exponential"

\* applyJitter: the set of delays the +/-50% jitter can produce
applyJitter(d, jitter) ==
    IF ~jitter \/ d <= 0 THEN {d}
    ELSE (d \div 2) .. (((3 * d + 1) \div 2) - 1)

\* the doubling loop of the exponential strategy, i runs from 1 to attempt-1
RECURSIVE expLoop(_, _, _, _)
expLoop(d, i, attempt, maxInterval) ==
    IF i >= attempt THEN d
    ELSE IF 2 * d > maxInterval THEN maxInterval
    ELSE expLoop(2 * d, i + 1, attempt, maxInterval)

\* computeBackoffDelay: the set of delays it can return
computeBackoffDelay(attempt, cfg) ==
    IF attempt <= 0 THEN {0}
    ELSE LET interval == IF cfg.Interval <= 0 THEN defaultBackoffInterval ELSE cfg.Interval
             maxInterval == IF cfg.MaxInterval <= 0 THEN defaultBackoffMaxInterval ELSE cfg.MaxInterval
         IN  IF cfg.Strategy = BackoffFixed THEN applyJitter(interval, cfg.Jitter)
             ELSE IF cfg.Strategy = BackoffExponential
             THEN applyJitter(expLoop(interval, 1, attempt, maxInterval), cfg.Jitter)
             ELSE {0}

\* an exit test that is off by one
RetriesExhaustedOffByOne(attempt, maxRetries) == attempt > maxRetries

\* the retry loop's exit test after a failed attempt
RetriesExhausted(attempt, maxRetries) == attempt >= maxRetries

\* ------------------------------------------------------ messages and config
Backoff(s, i, m, j) == [Strategy |-> s, Interval |-> i, MaxInterval |-> m, Jitter |-> j]
NoBackoff == Backoff("", 0, 0, FALSE)

\* backoff profiles a task declares
TaskBackoffs ==
    { NoBackoff,
      Backoff(BackoffNone, 0, 0, FALSE),
      Backoff(BackoffFixed, 1, 0, FALSE),
      Backoff(BackoffExponential, 1, 2, TRUE) }

\* configurations of the task behind the commander
TaskConfigs ==
    [Retries : (-1) .. MaxRetries, MaxConcurrency : {0, 1}, Backoff : TaskBackoffs]

\* idempotency key and policy combinations a caller sends
DedupChoices ==
    { <<"", DedupPolicyDrop>> } \cup
    { <<"k1", p>> : p \in {"", DedupPolicyIgnore, DedupPolicyDrop, DedupPolicyMerge,
                           DedupPolicyReplace, "bogus"} }

\* messages a caller passes to Execute (Config holds the overrides)
Messages ==
    { [JobID |-> "", ScriptPath |-> "", IdempotencyKey |-> d[1], DedupPolicy |-> d[2],
       payloadSize |-> p,
       Config |-> [Retries |-> 0, MaxConcurrency |-> l, Backoff |-> NoBackoff]] :
      d \in DedupChoices, p \in {2, 10}, l \in {0, MaxLimit} }

mergeBackoffDefaults(base, override) ==
    [Strategy |-> IF override.Strategy # "" THEN override.Strategy ELSE base.Strategy,
     Interval |-> IF override.Interval # 0 THEN override.Interval ELSE base.Interval,
     MaxInterval |-> IF override.MaxInterval # 0 THEN override.MaxInterval ELSE base.MaxInterval,
     Jitter |-> base.Jitter \/ override.Jitter]

mergeConfigDefaults(base, override) ==
    [Retries |-> IF override.Retries # 0 THEN override.Retries ELSE base.Retries,
     MaxConcurrency |-> IF override.MaxConcurrency # 0 THEN override.MaxConcurrency
                        ELSE base.MaxConcurrency,
     Backoff |-> mergeBackoffDefaults(base.Backoff, override.Backoff)]

\* the task of the commander: GetID() and GetPath()
TaskPath == "/tmp/job-1"
Task(id, path) == [ID |-> id, Path |-> path]

\* CompleteExecutionMessage: empty JobID / ScriptPath take the task's, Config is merged
CompleteExecutionMessage(task, cfg, m) ==
    [m EXCEPT !.JobID = IF m.JobID = "" THEN task.ID ELSE m.JobID,
              !.ScriptPath = IF m.ScriptPath = "" THEN task.Path ELSE m.ScriptPath,
              !.Config = mergeConfigDefaults(cfg, m.Config)]

\* idempotency keys at and beyond the length limit, and len() of the keys in use
Key256 == "k256"
LongKey == "k257"
len(key) ==
    CASE key = "" -> 0
      [] key = Key256 -> MaxIdempotencyKeyLength
      [] key = LongKey -> MaxIdempotencyKeyLength + 1
      [] OTHER -> 2

\* a validation that forgets the key length
ValidateNoKeyLimit(m) ==
    IF m.JobID = "" \/ m.ScriptPath = "" \/ ~isValidDedupPolicy(m.DedupPolicy)
    THEN ErrMsgInvalid
    ELSE Nil

\* ExecutionMessage.Validate, wrapped by Execute into JOB_EXEC_MSG_INVALID
Validate(m) ==
    IF \/ m.JobID = ""
       \/ m.ScriptPath = ""
       \/ len(m.IdempotencyKey) > MaxIdempotencyKeyLength
       \/ ~isValidDedupPolicy(m.DedupPolicy)
    THEN ErrMsgInvalid
    ELSE Nil

NoMsg == CompleteExecutionMessage(Task(TaskID, TaskPath),
                                  [Retries |-> 0, MaxConcurrency |-> 0, Backoff |-> NoBackoff],
                                  [JobID |-> "", ScriptPath |-> "", IdempotencyKey |-> "",
                                   DedupPolicy |-> "", payloadSize |-> 0,
                                   Config |-> [Retries |-> 0, MaxConcurrency |-> 0,
                                               Backoff |-> NoBackoff]])

\* ------------------------------------------------------------------- state
VARIABLES
    taskCfg,     \* Config of the task the commander wraps
    taskIdent,   \* GetID() and GetPath() of the task the commander wraps
    inputs,      \* the messages callers pass to Execute
    entries,     \* IdempotencyTracker.entries: key -> lastErr
    sem,         \* ConcurrencyLimiter.sem: key -> channel (capacity, length)
    pc,          \* position of each Execute call
    finalMsg,    \* the completed message of each call
    err,         \* the function-level err variable of each call
    attempt,     \* loop counter of the retry loop
    delay,       \* delay handed to backoffSleep
    timerFired,  \* the timer of sleepWithContext has fired
    release,     \* key of the channel the release closure receives from ("" = no-op)
    ret,         \* value returned by the call
    count,       \* number of times the call invoked Task.Execute
    ctxDone,     \* the call's context is cancelled
    schedules,   \* CronManager.schedules: schedule ID -> scheduledEntry
    handlers,    \* the scheduler's handlers, one per subscription handed out
    nextID,      \* number of the next subscription the scheduler hands out
    cpc,         \* position of each CronManager caller
    cdef,        \* the definition (or bare ID) the caller passed
    existing,    \* Update's / Delete's local: the entry read under the lock
    sub,         \* Register's / Update's local: the new subscription
    cerr,        \* value returned by the CronManager call
    backoffArgs, \* attempt and BackoffConfig handed to computeBackoffDelay
    backoffDelay, \* the delay it returned
    scopeExtractor, \* ConcurrencyLimiter.scopeExtractor of a limiter used directly
    lsem,        \* ConcurrencyLimiter.sem of that limiter
    lcall,       \* per caller: message, limit, result and key of its last Acquire
    rpc,         \* position of the Reconcile call
    rtargets,    \* Reconcile's local targets: schedule ID -> desired definition
    rtodo,       \* IDs of targets the first loop has not visited yet
    rcurrent,    \* IDs of currentIDs the second loop has not visited yet
    result,      \* Reconcile's ReconcileResult
    rctx,        \* the context handed to Reconcile is cancelled
    rstart,      \* CronManager.schedules as they were when Reconcile was called
    rerr,        \* the error Reconcile returned
    heap,        \* the maps and Result structs allocated so far, by reference
    callerMsg,   \* def.Message the caller passed to Register
    jobMsg,      \* the message captured by the job closure of the schedule
    storedMsg,   \* entry.definition.Message of the schedule
    listedMsg,   \* Message of the definition the last List returned
    tickMsg,      \* the message the last tick executed
    jobs,    \* memoryRegistry.jobs: task ID -> task
    regMx,    \* holder of memoryRegistry.mx
    apc,    \* position of each goroutine calling Add
    atask,    \* the task the goroutine adds
    aret,    \* value its Add returned
    creators,    \* what each task creator of the Runner returns
    rnpc,    \* position of Runner.Start
    rci,    \* index of the creator Start is at
    rti,    \* index of the task Start is at
    calls,    \* number of CreateTasks calls per creator
    events,    \* the task events the Runner's handlers received
    rnctx,    \* the context handed to Start is cancelled
    rnret,    \* value Start returned
    scripts,    \* paths of the scripts ListScripts returns, in source order
    listErr,    \* ListScripts fails
    engines,    \* taskCreator.engines
    tcpc,    \* position of CreateTasks
    tci,    \* index of the script CreateTasks is at
    tctasks,    \* CreateTasks' local tasks
    tcevents,    \* the task events the creator's handlers received
    tcctx,    \* the context handed to CreateTasks is cancelled
    tcret,    \* tasks and error CreateTasks returned
    mergeArgs,    \* base and override handed to mergeConfigDefaults
    merged,    \* the Config it returned
    pheap,    \* the maps of the caller, of EncodeEnvelope and of the sanitizer
    pcaller,    \* the caller's Params map (0 = nil)
    pbefore,    \* what the caller's Params held when EncodeEnvelope was called
    sarg,    \* the map handed to the sanitizer (0 = nil)
    spc,    \* position of EncodeEnvelope
    eopt,    \* the max-bytes option of the codec calls
    ebig,    \* length of the string param of the envelope to encode (-1 = no params)
    edata,    \* length of the data to decode
    encoded,    \* what EncodeEnvelope returned
    decoded,    \* what DecodeEnvelope returned
    nfiles,    \* number of files the walk visits
    fmax,    \* FileSystemSourceProvider.maxFileSize, in chunks
    fpc,    \* position of ListScripts
    fidx,    \* index of the file the walk is at
    fopen,    \* loadScriptContent holds an open file
    ftotal,    \* readFile's total, in chunks
    ferr,    \* readErr of loadScriptContent
    opens,    \* files the file system opened
    closes,    \* files closed
    fscripts,    \* scripts appended
    fctx,    \* the context handed to ListScripts is cancelled
    fret,    \* what ListScripts returned
    dbTable,    \* DBSourceProvider.Table, as its characters
    dbCall,    \* the provider method called
    dbRet,    \* what it returned and the number of queries it issued
    sqCfg,    \* Config.Transaction and Config.Metadata["transaction"] of the message
    sqScript,    \* the script: whether each statement succeeds
    sqpc,    \* position of SQLEngine.Execute
    sqi,    \* index of the statement the loop is at
    sqTx,    \* what was done to the transaction: begin, commit, rollback
    sqRan,    \* indices of the statements handed to the database
    sqErr,    \* the error the direct loop carries to its return
    sqRet,    \* what Execute returned
    etNoTimeout,    \* Config.NoTimeout of the message the engine executes
    etEngine,    \* e.Timeout of the engine
    etInbound,    \* deadline of the inbound context
    etNow,    \* the clock
    etpc,    \* position of GetExecutionContext
    etTimeout,    \* execTimeout
    etDeadline    \* deadline of the execution context

cmdVars == <<taskCfg, taskIdent, inputs, entries, sem, pc, finalMsg, err, attempt, delay, timerFired,
             release, ret, count, ctxDone>>
cronVars == <<schedules, handlers, nextID, cpc, cdef, existing, sub, cerr>>
\* what the TaskCommander leaves alone, what the CronManager leaves alone
backoffVars == <<backoffArgs, backoffDelay>>
limVars == <<scopeExtractor, lsem, lcall>>
recVars == <<rpc, rtargets, rtodo, rcurrent, result, rctx, rstart, rerr>>
listVars == <<heap, callerMsg, jobMsg, storedMsg, listedMsg, tickMsg>>
regVars == <<jobs, regMx, apc, atask, aret>>
runVars == <<creators, rnpc, rci, rti, calls, events, rnctx, rnret>>
creatorVars == <<scripts, listErr, engines, tcpc, tci, tctasks, tcevents, tcctx, tcret>>
mergeVars == <<mergeArgs, merged>>
sanitizeVars == <<pheap, pcaller, pbefore, sarg, spc>>
codecVars == <<eopt, ebig, edata, encoded, decoded>>
filesVars == <<nfiles, fmax, fpc, fidx, fopen, ftotal, ferr, opens, closes, fscripts, fctx, fret>>
dbVars == <<dbTable, dbCall, dbRet>>
sqlVars == <<sqCfg, sqScript, sqpc, sqi, sqTx, sqRan, sqErr, sqRet>>
timeoutVars == <<etNoTimeout, etEngine, etInbound, etNow, etpc, etTimeout, etDeadline>>
nonCmdVars == <<cronVars, backoffVars, limVars, recVars, listVars, regVars,
    runVars, creatorVars, mergeVars, sanitizeVars, codecVars,
    filesVars, dbVars, sqlVars, timeoutVars>>
nonCronVars == <<cmdVars, backoffVars, limVars, recVars, listVars, regVars,
    runVars, creatorVars, mergeVars, sanitizeVars, codecVars,
    filesVars, dbVars, sqlVars, timeoutVars>>
nonBackoffVars == <<cmdVars, cronVars, limVars, recVars, listVars, regVars,
    runVars, creatorVars, mergeVars, sanitizeVars, codecVars,
    filesVars, dbVars, sqlVars, timeoutVars>>
nonLimVars == <<cmdVars, cronVars, backoffVars, recVars, listVars, regVars,
    runVars, creatorVars, mergeVars, sanitizeVars, codecVars,
    filesVars, dbVars, sqlVars, timeoutVars>>
nonListVars == <<cmdVars, cronVars, backoffVars, limVars, recVars, regVars,
    runVars, creatorVars, mergeVars, sanitizeVars, codecVars,
    filesVars, dbVars, sqlVars, timeoutVars>>
nonRegVars == <<cmdVars, cronVars, backoffVars, limVars, recVars, listVars,
    runVars, creatorVars, mergeVars, sanitizeVars, codecVars,
    filesVars, dbVars, sqlVars, timeoutVars>>
nonRunVars == <<cmdVars, cronVars, backoffVars, limVars, recVars, listVars,
    regVars, creatorVars, mergeVars, sanitizeVars, codecVars,
    filesVars, dbVars, sqlVars, timeoutVars>>
nonCreatorVars == <<cmdVars, cronVars, backoffVars, limVars, recVars, listVars,
    regVars, runVars, mergeVars, sanitizeVars, codecVars,
    filesVars, dbVars, sqlVars, timeoutVars>>
nonMergeVars == <<cmdVars, cronVars, backoffVars, limVars, recVars, listVars,
    regVars, runVars, creatorVars, sanitizeVars, codecVars,
    filesVars, dbVars, sqlVars, timeoutVars>>
nonSanitizeVars == <<cmdVars, cronVars, backoffVars, limVars, recVars, listVars,
    regVars, runVars, creatorVars, mergeVars, codecVars,
    filesVars, dbVars, sqlVars, timeoutVars>>
nonCodecVars == <<cmdVars, cronVars, backoffVars, limVars, recVars, listVars,
    regVars, runVars, creatorVars, mergeVars, sanitizeVars,
    filesVars, dbVars, sqlVars, timeoutVars>>
nonFilesVars == <<cmdVars, cronVars, backoffVars, limVars, recVars, listVars,
    regVars, runVars, creatorVars, mergeVars, sanitizeVars,
    codecVars, dbVars, sqlVars, timeoutVars>>
nonDbVars == <<cmdVars, cronVars, backoffVars, limVars, recVars, listVars,
    regVars, runVars, creatorVars, mergeVars, sanitizeVars,
    codecVars, filesVars, sqlVars, timeoutVars>>
nonSqlVars == <<cmdVars, cronVars, backoffVars, limVars, recVars, listVars,
    regVars, runVars, creatorVars, mergeVars, sanitizeVars,
    codecVars, filesVars, dbVars, timeoutVars>>
nonTimeoutVars == <<cmdVars, cronVars, backoffVars, limVars, recVars, listVars,
    regVars, runVars, creatorVars, mergeVars, sanitizeVars,
    codecVars, filesVars, dbVars, sqlVars>>
nonRunRegVars == <<cmdVars, cronVars, backoffVars, limVars, recVars, listVars,
    creatorVars, mergeVars, sanitizeVars, codecVars,
    filesVars, dbVars, sqlVars, timeoutVars>>
\* what a sequential user of the CronManager leaves alone
nonRecVars == <<cmdVars, backoffVars, limVars, listVars, regVars, runVars,
    creatorVars, mergeVars, sanitizeVars, codecVars,
    filesVars, dbVars, sqlVars, timeoutVars, cpc, cdef,
    existing, sub, cerr>>
vars == <<cmdVars, cronVars, backoffVars, limVars, recVars, listVars,
    regVars, runVars, creatorVars, mergeVars, sanitizeVars,
    codecVars, filesVars, dbVars, sqlVars, timeoutVars>>

InitCmd ==
    /\ taskCfg \in TaskConfigs
    /\ taskIdent = Task(TaskID, TaskPath)
    /\ inputs = Messages
    /\ entries = [k \in IdemKeys |-> NoEntry]
    /\ sem = [k \in ConcKeys |-> NoChan]
    /\ pc = [c \in Calls |-> "idle"]
    /\ finalMsg = [c \in Calls |-> NoMsg]
    /\ err = [c \in Calls |-> Nil]
    /\ attempt = [c \in Calls |-> 0]
    /\ delay = [c \in Calls |-> 0]
    /\ timerFired = [c \in Calls |-> FALSE]
    /\ release = [c \in Calls |-> ""]
    /\ ret = [c \in Calls |-> Pending]
    /\ count = [c \in Calls |-> 0]
    /\ ctxDone = [c \in Calls |-> FALSE]

Return(c, e) ==
    /\ ret' = [ret EXCEPT ![c] = e]
    /\ pc' = [pc EXCEPT ![c] = "done"]

\* Execute, lines 402-425: completion and validation
Begin(c) ==
    /\ pc[c] = "idle"
    /\ \E m \in inputs :
         LET fm == CompleteExecutionMessage(taskIdent, taskCfg, m)
         IN  /\ finalMsg' = [finalMsg EXCEPT ![c] = fm]
             /\ IF Validate(fm) # Nil
                THEN Return(c, ErrMsgInvalid)
                ELSE /\ pc' = [pc EXCEPT ![c] = "dedup"]
                     /\ ret' = ret
    /\ UNCHANGED nonCmdVars
    /\ UNCHANGED <<taskCfg, taskIdent, inputs, entries, sem, err, attempt, delay, timerFired, release,
                   count, ctxDone>>

\* Execute, lines 427-433: dedupBeforeExecute and its switch
Dedup(c) ==
    /\ pc[c] = "dedup"
    /\ LET r == BeforeExecute(entries, finalMsg[c].IdempotencyKey, finalMsg[c].DedupPolicy)
       IN  /\ entries' = r.entries
           /\ IF r.decision = dedupDrop THEN Return(c, ErrIdempotentDrop)
              ELSE IF r.decision = dedupMerge THEN Return(c, r.err)
              ELSE /\ pc' = [pc EXCEPT ![c] = "quota"]
                   /\ ret' = ret
    /\ UNCHANGED nonCmdVars
    /\ UNCHANGED <<taskCfg, taskIdent, inputs, sem, finalMsg, err, attempt, delay, timerFired, release,
                   count, ctxDone>>

\* Execute, lines 435-437: the quota check
Quota(c) ==
    /\ pc[c] = "quota"
    /\ IF QuotaCheck(finalMsg[c]) # Nil
       THEN Return(c, QuotaCheck(finalMsg[c]))
       ELSE /\ pc' = [pc EXCEPT ![c] = "acquire"]
            /\ ret' = ret
    /\ UNCHANGED nonCmdVars
    /\ UNCHANGED <<taskCfg, taskIdent, inputs, entries, sem, finalMsg, err, attempt, delay, timerFired,
                   release, count, ctxDone>>

\* Execute, lines 439-448 with acquireConcurrency: take a slot, register the defers
AcquireConcurrency(c) ==
    /\ pc[c] = "acquire"
    /\ LET limit == finalMsg[c].Config.MaxConcurrency
           key == finalMsg[c].JobID
       IN  IF limit <= 0
           THEN /\ release' = [release EXCEPT ![c] = ""]
                /\ err' = [err EXCEPT ![c] = Nil]
                /\ pc' = [pc EXCEPT ![c] = "exec"]
                /\ UNCHANGED <<sem, ret>>
           ELSE LET r == Acquire(sem, key, limit)
                IN  /\ sem' = r.sem
                    /\ IF r.err # Nil
                       THEN /\ Return(c, r.err)
                            /\ UNCHANGED <<release, err>>
                       ELSE /\ release' = [release EXCEPT ![c] = key]
                            /\ err' = [err EXCEPT ![c] = Nil]
                            /\ pc' = [pc EXCEPT ![c] = "exec"]
                            /\ ret' = ret
    /\ attempt' = [attempt EXCEPT ![c] = 0]
    /\ UNCHANGED nonCmdVars
    /\ UNCHANGED <<taskCfg, taskIdent, inputs, entries, finalMsg, delay, timerFired, count, ctxDone>>

\* Execute, lines 450-460: one attempt of the retry loop up to the backoffSleep call
Attempt(c) ==
    /\ pc[c] = "exec"
    /\ count' = [count EXCEPT ![c] = @ + 1]
    /\ \E e \in {Nil, EngineErr(c, attempt[c])} :
         /\ err' = [err EXCEPT ![c] = e]
         /\ IF e = Nil
            THEN /\ ret' = [ret EXCEPT ![c] = Nil]
                 /\ pc' = [pc EXCEPT ![c] = "after"]
                 /\ delay' = delay
            ELSE IF RetriesExhausted(attempt[c], finalMsg[c].Config.Retries)
            THEN /\ ret' = [ret EXCEPT ![c] = e]
                 /\ pc' = [pc EXCEPT ![c] = "after"]
                 /\ delay' = delay
            ELSE /\ \E d \in computeBackoffDelay(attempt[c] + 1, finalMsg[c].Config.Backoff) :
                      delay' = [delay EXCEPT ![c] = d]
                 /\ pc' = [pc EXCEPT ![c] = "sleep"]
                 /\ ret' = ret
    /\ timerFired' = [timerFired EXCEPT ![c] = FALSE]
    /\ UNCHANGED nonCmdVars
    /\ UNCHANGED <<taskCfg, taskIdent, inputs, entries, sem, finalMsg, attempt, release, ctxDone>>

\* the timer started by sleepWithContext expires
TimerFire(c) ==
    /\ pc[c] = "sleep"
    /\ delay[c] > 0
    /\ ~timerFired[c]
    /\ timerFired' = [timerFired EXCEPT ![c] = TRUE]
    /\ UNCHANGED nonCmdVars
    /\ UNCHANGED <<taskCfg, taskIdent, inputs, entries, sem, pc, finalMsg, err, attempt, delay, release,
                   ret, count, ctxDone>>

\* sleepWithContext: nil at once for a delay <= 0, else a select over ctx.Done and the timer
sleepWithContext(done, fired, d) ==
    IF d <= 0 THEN {Nil}
    ELSE (IF done THEN {ErrCtx} ELSE {}) \cup (IF fired THEN {Nil} ELSE {})

\* Execute, lines 461-464: backoffSleep returns
Sleep(c) ==
    /\ pc[c] = "sleep"
    /\ \E sleepErr \in sleepWithContext(ctxDone[c], timerFired[c], delay[c]) :
         IF sleepErr # Nil
         THEN /\ ret' = [ret EXCEPT ![c] = sleepErr]
              /\ pc' = [pc EXCEPT ![c] = "after"]
              /\ attempt' = attempt
         ELSE /\ attempt' = [attempt EXCEPT ![c] = @ + 1]
              /\ pc' = [pc EXCEPT ![c] = "exec"]
              /\ ret' = ret
    /\ delay' = [delay EXCEPT ![c] = 0]
    /\ timerFired' = [timerFired EXCEPT ![c] = FALSE]
    /\ UNCHANGED nonCmdVars
    /\ UNCHANGED <<taskCfg, taskIdent, inputs, entries, sem, finalMsg, err, release, count, ctxDone>>

\* the deferred dedupAfterExecute(c.tracker, finalMsg, &err)
After(c) ==
    /\ pc[c] = "after"
    /\ entries' = AfterExecute(entries, finalMsg[c].IdempotencyKey, finalMsg[c].DedupPolicy,
                               err[c])
    /\ pc' = [pc EXCEPT ![c] = "release"]
    /\ UNCHANGED nonCmdVars
    /\ UNCHANGED <<taskCfg, taskIdent, inputs, sem, finalMsg, err, attempt, delay, timerFired, release,
                   ret, count, ctxDone>>

\* the deferred release(), after which Execute returns
ReleaseSlot(c) ==
    /\ pc[c] = "release"
    /\ sem' = IF release[c] = "" THEN sem ELSE Release(sem, release[c])
    /\ release' = [release EXCEPT ![c] = ""]
    /\ pc' = [pc EXCEPT ![c] = "done"]
    /\ UNCHANGED nonCmdVars
    /\ UNCHANGED <<taskCfg, taskIdent, inputs, entries, finalMsg, err, attempt, delay, timerFired, ret,
                   count, ctxDone>>

\* the caller cancels the context while the call waits between two attempts; Execute
\* reads the context nowhere else, so an earlier cancellation is observed at this point
Cancel(c) ==
    /\ pc[c] = "sleep"
    /\ ~ctxDone[c]
    /\ ctxDone' = [ctxDone EXCEPT ![c] = TRUE]
    /\ UNCHANGED nonCmdVars
    /\ UNCHANGED <<taskCfg, taskIdent, inputs, entries, sem, pc, finalMsg, err, attempt, delay, timerFired,
                   release, ret, count>>

NextCmd ==
    \E c \in Calls :
        \/ Begin(c)
        \/ Dedup(c)
        \/ Quota(c)
        \/ AcquireConcurrency(c)
        \/ Attempt(c)
        \/ TimerFire(c)
        \/ Sleep(c)
        \/ After(c)
        \/ ReleaseSlot(c)
        \/ Cancel(c)


\* ------------------------------------------------------------ cron manager
\* bound: subscriptions the scheduler hands out before AddHandler only fails
MaxSubs == 2

CronProcs == {"p1", "p2"}
SchedIDs == {"s1", "s2"}
SubIDs == 1 .. MaxSubs

\* the registry holds one task, declared with Config{Schedule: "@hourly", Retries: 2}
RegistryTasks == {TaskID}
cronTaskConfig == [Schedule |-> "@hourly", Retries |-> 2]
\* GetHandlerConfig of that task: NewBaseTask copies Schedule and Retries into it
taskHandlerConfig ==
    [Expression |-> cronTaskConfig.Schedule, MaxRetries |-> cronTaskConfig.Retries]

ErrCron(k) == Sentinel(k)

\* definitions a caller passes: valid ones, one naming a task the registry lacks,
\* and one without expression
ScheduleDefs ==
    [ID : SchedIDs, Expression : {"x1", "x2"}, JobID : {TaskID}, Retries : {0},
     OutputCallback : {FALSE}, Result : {""}]
    \cup
    { [ID |-> "s1", Expression |-> "x1", JobID |-> "ghost", Retries |-> 0,
       OutputCallback |-> FALSE, Result |-> ""],
      [ID |-> "s1", Expression |-> "", JobID |-> TaskID, Retries |-> 0,
       OutputCallback |-> FALSE, Result |-> ""] }

\* OutputCallback: the message carries a non-nil func; Result: what msg.Result
\* points to, "" for a nil pointer
NoDef == [ID |-> "", Expression |-> "", JobID |-> "", Retries |-> 0,
          OutputCallback |-> FALSE, Result |-> ""]
NoSched == [definition |-> NoDef, subscription |-> 0]
\* the execution message a scheduled handler runs on each tick
NoExecMsg == [JobID |-> "", Retries |-> 0]
NoHandler == [id |-> "", cfg |-> [Expression |-> "", MaxRetries |-> 0],
              msg |-> NoExecMsg, active |-> FALSE]

\* ScheduleDefinition.Validate
ValidateDef(d) ==
    IF d.ID = "" \/ d.Expression = "" \/ d.JobID = ""
    THEN ErrCron("schedule validation failed")
    ELSE Nil

\* handler options that keep the retries the task declared
applyConfigKeepsRetries(base, cfg) ==
    [Expression |-> IF cfg.Schedule # "" THEN cfg.Schedule ELSE base.Expression,
     MaxRetries |-> base.MaxRetries]

\* applyConfigToHandlerOptions: expression from the merged config, MaxRetries forced to 0
applyConfigToHandlerOptions(base, cfg) ==
    [Expression |-> IF cfg.Schedule # "" THEN cfg.Schedule ELSE base.Expression,
     MaxRetries |-> 0]

\* CronManager.resolve: error, resolved definition and handler options
resolve(d) ==
    IF d.JobID \notin RegistryTasks
    THEN [err |-> ErrCron("task not found"), resolved |-> NoDef,
          handlerOpts |-> NoHandler.cfg, execMsg |-> NoExecMsg]
    ELSE LET mergedRetries == IF d.Retries # 0 THEN d.Retries ELSE cronTaskConfig.Retries
             mergedSchedule == IF d.Expression # "" THEN d.Expression
                               ELSE cronTaskConfig.Schedule
             opts == applyConfigToHandlerOptions(
                         taskHandlerConfig,
                         [Schedule |-> mergedSchedule, Retries |-> mergedRetries])
         IN  [err |-> Nil,
              resolved |-> [ID |-> d.ID, Expression |-> opts.Expression, JobID |-> d.JobID,
                            Retries |-> mergedRetries,
                            OutputCallback |-> d.OutputCallback, Result |-> d.Result],
              handlerOpts |-> opts,
              execMsg |-> [JobID |-> d.JobID, Retries |-> mergedRetries]]

\* the scheduler's AddHandler: a new active handler under the next subscription number
AddHandler(hs, n, id, opts, msg) ==
    [hs EXCEPT ![n] = [id |-> id, cfg |-> opts, msg |-> msg, active |-> TRUE]]

\* a failing AddHandler that leaves its handler subscribed all the same
addHandlerFailedLeaks(hs, n, id) ==
    IF n \in DOMAIN hs
    THEN [hs EXCEPT ![n] = [id |-> id, cfg |-> NoHandler.cfg, msg |-> NoExecMsg,
                            active |-> TRUE]]
    ELSE hs

\* the scheduler's AddHandler returning an error: no handler is subscribed
addHandlerFailed(hs, n, id) == hs

\* Subscription.Unsubscribe
Unsubscribe(hs, s) ==
    IF s = 0 THEN hs ELSE [hs EXCEPT ![s] = [@ EXCEPT !.active = FALSE]]

\* the map write m.schedules[resolved.ID] = &scheduledEntry{...} of Register
RegisterEntry(scheds, resolved, s) ==
    [scheds EXCEPT ![resolved.ID] = [definition |-> resolved, subscription |-> s]]

\* an Update that stores the new definition but keeps the old subscription
UpdateEntryKeepsOldSubscription(scheds, resolved, s) ==
    [scheds EXCEPT ![resolved.ID] = [definition |-> resolved,
                                     subscription |-> @.subscription]]

\* the map write m.schedules[resolved.ID] = &scheduledEntry{...} of Update
UpdateEntry(scheds, resolved, s) ==
    [scheds EXCEPT ![resolved.ID] = [definition |-> resolved, subscription |-> s]]

InitCron ==
    /\ schedules = [id \in SchedIDs |-> NoSched]
    /\ handlers = [s \in SubIDs |-> NoHandler]
    /\ nextID = 1
    /\ cpc = [p \in CronProcs |-> "idle"]
    /\ cdef = [p \in CronProcs |-> NoDef]
    /\ existing = [p \in CronProcs |-> NoSched]
    /\ sub = [p \in CronProcs |-> 0]
    /\ cerr = [p \in CronProcs |-> Pending]

\* the call returns e: its locals are gone and the caller is free to make its next call
CronReturn(p, e) ==
    /\ cerr' = [cerr EXCEPT ![p] = e]
    /\ cpc' = [cpc EXCEPT ![p] = "idle"]
    /\ cdef' = [cdef EXCEPT ![p] = NoDef]
    /\ existing' = [existing EXCEPT ![p] = NoSched]
    /\ sub' = [sub EXCEPT ![p] = 0]

\* the call moves on to its next step with the locals given
CronGoto(p, to, d, ex, s) ==
    /\ cpc' = [cpc EXCEPT ![p] = to]
    /\ cerr' = [cerr EXCEPT ![p] = Pending]
    /\ cdef' = [cdef EXCEPT ![p] = d]
    /\ existing' = [existing EXCEPT ![p] = ex]
    /\ sub' = [sub EXCEPT ![p] = s]

\* Register, lines 89-111: validation and the duplicate check under the lock
RegisterCheck(p) ==
    /\ cpc[p] = "idle"
    /\ \E d \in ScheduleDefs :
         IF ValidateDef(d) # Nil THEN CronReturn(p, ValidateDef(d))
         ELSE IF schedules[d.ID] # NoSched THEN CronReturn(p, ErrCron("already exists"))
         ELSE CronGoto(p, "reg_add", d, NoSched, 0)
    /\ UNCHANGED <<schedules, handlers, nextID>>
    /\ UNCHANGED nonCronVars

\* resolve, buildCommander and scheduler.AddHandler, shared by Register and Update
ResolveAndAdd(p, from, to) ==
    /\ cpc[p] = from
    /\ LET r == resolve(cdef[p])
       IN  IF r.err # Nil
           THEN /\ CronReturn(p, r.err)
                /\ UNCHANGED <<handlers, nextID>>
           ELSE \/ /\ nextID <= MaxSubs
                   /\ handlers' = AddHandler(handlers, nextID, r.resolved.ID, r.handlerOpts,
                                                r.execMsg)
                   /\ nextID' = nextID + 1
                   /\ CronGoto(p, to, cdef[p], existing[p], nextID)
                \/ /\ CronReturn(p, ErrCron("AddHandler failed"))
                   /\ handlers' = addHandlerFailed(handlers, nextID, cdef[p].ID)
                   /\ UNCHANGED nextID
    /\ UNCHANGED schedules
    /\ UNCHANGED nonCronVars

\* Register, lines 113-130
RegisterAdd(p) == ResolveAndAdd(p, "reg_add", "reg_store")

\* Register, lines 132-139: store the entry under the lock and return nil
RegisterStore(p) ==
    /\ cpc[p] = "reg_store"
    /\ schedules' = RegisterEntry(schedules, resolve(cdef[p]).resolved, sub[p])
    /\ CronReturn(p, Nil)
    /\ UNCHANGED <<handlers, nextID>>
    /\ UNCHANGED nonCronVars

\* Update, lines 143-159: validation and the lookup under the read lock
UpdateLookup(p) ==
    /\ cpc[p] = "idle"
    /\ \E d \in ScheduleDefs :
         IF ValidateDef(d) # Nil THEN CronReturn(p, ValidateDef(d))
         ELSE IF schedules[d.ID] = NoSched THEN CronReturn(p, ErrCron("not found"))
         ELSE CronGoto(p, "upd_add", d, schedules[d.ID], 0)
    /\ UNCHANGED <<schedules, handlers, nextID>>
    /\ UNCHANGED nonCronVars

\* Update, lines 161-178
UpdateAdd(p) == ResolveAndAdd(p, "upd_add", "upd_store")

\* Update, lines 180-185: replace the entry under the lock
UpdateStore(p) ==
    /\ cpc[p] = "upd_store"
    /\ schedules' = UpdateEntry(schedules, resolve(cdef[p]).resolved, sub[p])
    /\ CronGoto(p, "upd_unsub", cdef[p], existing[p], sub[p])
    /\ UNCHANGED <<handlers, nextID>>
    /\ UNCHANGED nonCronVars

\* Update, lines 187-191: unsubscribe the old subscription and return nil
UpdateUnsubscribe(p) ==
    /\ cpc[p] = "upd_unsub"
    /\ handlers' = Unsubscribe(handlers, existing[p].subscription)
    /\ CronReturn(p, Nil)
    /\ UNCHANGED <<schedules, nextID>>
    /\ UNCHANGED nonCronVars

\* Delete, lines 195-215: remove the entry under the lock
DeleteRemove(p) ==
    /\ cpc[p] = "idle"
    /\ \E id \in SchedIDs :
         IF schedules[id] = NoSched
         THEN /\ CronReturn(p, ErrCron("not found"))
              /\ UNCHANGED schedules
         ELSE /\ schedules' = [schedules EXCEPT ![id] = NoSched]
              /\ CronGoto(p, "del_unsub", [NoDef EXCEPT !.ID = id], schedules[id], 0)
    /\ UNCHANGED <<handlers, nextID>>
    /\ UNCHANGED nonCronVars

\* Delete, lines 217-220: unsubscribe and return nil
DeleteUnsubscribe(p) ==
    /\ cpc[p] = "del_unsub"
    /\ handlers' = Unsubscribe(handlers, existing[p].subscription)
    /\ CronReturn(p, Nil)
    /\ UNCHANGED <<schedules, nextID>>
    /\ UNCHANGED nonCronVars

NextCron ==
    \E p \in CronProcs :
        \/ RegisterCheck(p)
        \/ RegisterAdd(p)
        \/ RegisterStore(p)
        \/ UpdateLookup(p)
        \/ UpdateAdd(p)
        \/ UpdateStore(p)
        \/ UpdateUnsubscribe(p)
        \/ DeleteRemove(p)
        \/ DeleteUnsubscribe(p)

\* ---------------------------------------------------------------- Reconcile
\* bound: subscriptions the scheduler hands out to a sequential caller
MaxRecSubs == 3
\* bound: length of the desired slice handed to Reconcile
MaxDesired == 2

\* definitions a sequential caller passes: valid ones with and without an override
\* of Retries, ones without expression, ones naming a task the registry lacks
RecDefs ==
    [ID : SchedIDs, Expression : {cronTaskConfig.Schedule}, JobID : {TaskID},
     Retries : {0, 3}, OutputCallback : {FALSE}, Result : {""}]
    \cup
    [ID : SchedIDs, Expression : {cronTaskConfig.Schedule}, JobID : {TaskID},
     Retries : {0}, OutputCallback : {TRUE}, Result : {""}]
    \cup
    [ID : SchedIDs, Expression : {cronTaskConfig.Schedule}, JobID : {TaskID},
     Retries : {0}, OutputCallback : {FALSE}, Result : {"done"}]
    \cup
    [ID : SchedIDs, Expression : {""}, JobID : {TaskID}, Retries : {0},
     OutputCallback : {FALSE}, Result : {""}]
    \cup
    [ID : SchedIDs, Expression : {cronTaskConfig.Schedule}, JobID : {"ghost"},
     Retries : {0}, OutputCallback : {FALSE}, Result : {""}]

\* the desired slices handed to Reconcile
DesiredLists == UNION { [1 .. n -> RecDefs] : n \in 0 .. MaxDesired }

\* targets[def.ID] = def for each def of desired: the last definition of an ID wins
targetsOf(desired) ==
    [id \in SchedIDs |->
        LET idx == { i \in 1 .. Len(desired) : desired[i].ID = id }
        IN  IF idx = {} THEN NoDef
            ELSE desired[CHOOSE i \in idx : \A j \in idx : j <= i]]

\* definitionsEqual: reflect.DeepEqual of the two definitions. Strings, the
\* config and the pointee of Result compare by value; two func values are
\* deeply equal only when both are nil
definitionsEqual(a, b) == a = b /\ ~a.OutputCallback /\ ~b.OutputCallback

\* an append that does not look at the outcome of the step
appendAttempted(list, id, e) == Append(list, id)

\* "if err != nil { return result, err }" followed by the append to the result
appendCompleted(list, id, e) == IF e # Nil THEN list ELSE Append(list, id)

NoResult == [Added |-> <<>>, Updated |-> <<>>, Removed |-> <<>>]

\* outcome of one whole CronManager call: its error and the state it leaves
Outcome(e, scheds, hs, n) ==
    [err |-> e, schedules |-> scheds, handlers |-> hs, nextID |-> n]

\* CronManager.Register run by a caller that has the manager to itself
RegisterCall(scheds, hs, n, done, d) ==
    IF done THEN { Outcome(ErrCtx, scheds, hs, n) }
    ELSE IF ValidateDef(d) # Nil THEN { Outcome(ValidateDef(d), scheds, hs, n) }
    ELSE IF scheds[d.ID] # NoSched
         THEN { Outcome(ErrCron("already exists"), scheds, hs, n) }
    ELSE LET r == resolve(d)
         IN  IF r.err # Nil THEN { Outcome(r.err, scheds, hs, n) }
             ELSE { Outcome(ErrCron("AddHandler failed"), scheds, hs, n) }
                  \cup
                  { Outcome(Nil, RegisterEntry(scheds, r.resolved, n),
                            AddHandler(hs, n, r.resolved.ID, r.handlerOpts, r.execMsg),
                            n + 1) : x \in { y \in {n} : y <= MaxRecSubs } }

\* CronManager.Update run by a caller that has the manager to itself
UpdateCall(scheds, hs, n, done, d) ==
    IF done THEN { Outcome(ErrCtx, scheds, hs, n) }
    ELSE IF ValidateDef(d) # Nil THEN { Outcome(ValidateDef(d), scheds, hs, n) }
    ELSE IF scheds[d.ID] = NoSched
         THEN { Outcome(ErrCron("not found"), scheds, hs, n) }
    ELSE LET r == resolve(d)
         IN  IF r.err # Nil THEN { Outcome(r.err, scheds, hs, n) }
             ELSE { Outcome(ErrCron("AddHandler failed"), scheds, hs, n) }
                  \cup
                  { Outcome(Nil, UpdateEntry(scheds, r.resolved, n),
                            Unsubscribe(
                                AddHandler(hs, n, r.resolved.ID, r.handlerOpts, r.execMsg),
                                scheds[d.ID].subscription),
                            n + 1) : x \in { y \in {n} : y <= MaxRecSubs } }

\* CronManager.Delete run by a caller that has the manager to itself
DeleteCall(scheds, hs, n, done, id) ==
    IF done THEN { Outcome(ErrCtx, scheds, hs, n) }
    ELSE IF scheds[id] = NoSched THEN { Outcome(ErrCron("not found"), scheds, hs, n) }
    ELSE { Outcome(Nil, [scheds EXCEPT ![id] = NoSched],
                   Unsubscribe(hs, scheds[id].subscription), n) }

InitRec ==
    /\ rpc = "idle"
    /\ rtargets = [id \in SchedIDs |-> NoDef]
    /\ rtodo = {}
    /\ rcurrent = {}
    /\ result = NoResult
    /\ rctx = FALSE
    /\ rstart = [id \in SchedIDs |-> NoSched]
    /\ rerr = Pending

\* the manager takes the state a call left
Leaves(o) ==
    /\ schedules' = o.schedules
    /\ handlers' = o.handlers
    /\ nextID' = o.nextID

\* the caller is between two calls and holds no result
Forget ==
    /\ rpc' = "idle"
    /\ rtargets' = [id \in SchedIDs |-> NoDef]
    /\ rtodo' = {}
    /\ rcurrent' = {}
    /\ result' = NoResult
    /\ rctx' = FALSE
    /\ rstart' = [id \in SchedIDs |-> NoSched]
    /\ rerr' = Pending

\* the caller registers a schedule directly
DirectRegister ==
    /\ rpc = "idle"
    /\ \E d \in RecDefs :
         \E o \in RegisterCall(schedules, handlers, nextID, FALSE, d) : Leaves(o)
    /\ Forget
    /\ UNCHANGED nonRecVars

\* the caller updates a schedule directly
DirectUpdate ==
    /\ rpc = "idle"
    /\ \E d \in RecDefs :
         \E o \in UpdateCall(schedules, handlers, nextID, FALSE, d) : Leaves(o)
    /\ Forget
    /\ UNCHANGED nonRecVars

\* the caller deletes a schedule directly
DirectDelete ==
    /\ rpc = "idle"
    /\ \E id \in SchedIDs :
         \E o \in DeleteCall(schedules, handlers, nextID, FALSE, id) : Leaves(o)
    /\ Forget
    /\ UNCHANGED nonRecVars

\* Reconcile returns e with the result built so far
ReconcileReturn(e) ==
    /\ rpc' = "returned"
    /\ rerr' = e
    /\ rtodo' = {}
    /\ rcurrent' = {}

\* Reconcile, lines 236-244: the empty result and the targets map
ReconcileStart ==
    /\ rpc = "idle"
    /\ \E desired \in DesiredLists :
         /\ rtargets' = targetsOf(desired)
         /\ rtodo' = { id \in SchedIDs : targetsOf(desired)[id] # NoDef }
    /\ rpc' = "targets"
    /\ rcurrent' = {}
    /\ result' = NoResult
    /\ rctx' = FALSE
    /\ rstart' = schedules
    /\ rerr' = Pending
    /\ UNCHANGED cronVars
    /\ UNCHANGED <<cmdVars, backoffVars, limVars, listVars, regVars, runVars, creatorVars, mergeVars, sanitizeVars, codecVars, filesVars, dbVars, sqlVars, timeoutVars>>

\* Reconcile, lines 246-273: one iteration of the loop over targets, in map order
ReconcileTarget ==
    /\ rpc = "targets"
    /\ \E id \in rtodo :
         LET def == rtargets[id]
             r == resolve(def)
         IN  IF rctx
             THEN /\ ReconcileReturn(ErrCtx)
                  /\ UNCHANGED <<schedules, handlers, nextID, result>>
             ELSE IF schedules[id] = NoSched
             THEN \E o \in RegisterCall(schedules, handlers, nextID, rctx, def) :
                    /\ Leaves(o)
                    /\ result' = [result EXCEPT
                                    !.Added = appendCompleted(@, id, o.err)]
                    /\ IF o.err # Nil THEN ReconcileReturn(o.err)
                       ELSE /\ rtodo' = rtodo \ {id}
                            /\ UNCHANGED <<rpc, rerr, rcurrent>>
             ELSE IF r.err # Nil
             THEN /\ ReconcileReturn(r.err)
                  /\ UNCHANGED <<schedules, handlers, nextID, result>>
             ELSE IF ~definitionsEqual(r.resolved, schedules[id].definition)
             THEN \E o \in UpdateCall(schedules, handlers, nextID, rctx, def) :
                    /\ Leaves(o)
                    /\ result' = [result EXCEPT
                                    !.Updated = appendCompleted(@, id, o.err)]
                    /\ IF o.err # Nil THEN ReconcileReturn(o.err)
                       ELSE /\ rtodo' = rtodo \ {id}
                            /\ UNCHANGED <<rpc, rerr, rcurrent>>
             ELSE /\ rtodo' = rtodo \ {id}
                  /\ UNCHANGED <<schedules, handlers, nextID, result, rpc, rerr, rcurrent>>
    /\ UNCHANGED <<rtargets, rctx, rstart>>
    /\ UNCHANGED nonRecVars

\* Reconcile, lines 275-280: the snapshot of the IDs registered now
ReconcileSnapshot ==
    /\ rpc = "targets"
    /\ rtodo = {}
    /\ rcurrent' = { id \in SchedIDs : schedules[id] # NoSched }
    /\ rpc' = "removes"
    /\ UNCHANGED <<rtargets, rtodo, result, rctx, rstart, rerr>>
    /\ UNCHANGED cronVars
    /\ UNCHANGED <<cmdVars, backoffVars, limVars, listVars, regVars, runVars, creatorVars, mergeVars, sanitizeVars, codecVars, filesVars, dbVars, sqlVars, timeoutVars>>

\* Reconcile, lines 282-292: one iteration of the loop over currentIDs
ReconcileRemove ==
    /\ rpc = "removes"
    /\ \E id \in rcurrent :
         IF rctx
         THEN /\ ReconcileReturn(ErrCtx)
              /\ UNCHANGED <<schedules, handlers, nextID, result>>
         ELSE IF rtargets[id] = NoDef
         THEN \E o \in DeleteCall(schedules, handlers, nextID, rctx, id) :
                /\ Leaves(o)
                /\ result' = [result EXCEPT !.Removed = appendCompleted(@, id, o.err)]
                /\ IF o.err # Nil THEN ReconcileReturn(o.err)
                   ELSE /\ rcurrent' = rcurrent \ {id}
                        /\ UNCHANGED <<rpc, rerr, rtodo>>
         ELSE /\ rcurrent' = rcurrent \ {id}
              /\ UNCHANGED <<schedules, handlers, nextID, result, rpc, rerr, rtodo>>
    /\ UNCHANGED <<rtargets, rctx, rstart>>
    /\ UNCHANGED nonRecVars

\* Reconcile, line 294: return result, nil
ReconcileDone ==
    /\ rpc = "removes"
    /\ rcurrent = {}
    /\ ReconcileReturn(Nil)
    /\ UNCHANGED <<rtargets, result, rctx, rstart>>
    /\ UNCHANGED cronVars
    /\ UNCHANGED <<cmdVars, backoffVars, limVars, listVars, regVars, runVars, creatorVars, mergeVars, sanitizeVars, codecVars, filesVars, dbVars, sqlVars, timeoutVars>>

\* the context handed to Reconcile is cancelled while it runs
ReconcileCancel ==
    /\ rpc \in {"targets", "removes"}
    /\ ~rctx
    /\ rctx' = TRUE
    /\ UNCHANGED <<rpc, rtargets, rtodo, rcurrent, result, rstart, rerr>>
    /\ UNCHANGED cronVars
    /\ UNCHANGED <<cmdVars, backoffVars, limVars, listVars, regVars, runVars, creatorVars, mergeVars, sanitizeVars, codecVars, filesVars, dbVars, sqlVars, timeoutVars>>

\* the caller has looked at the result of Reconcile and is ready for its next call
ReconcileResultRead ==
    /\ rpc = "returned"
    /\ Forget
    /\ UNCHANGED cronVars
    /\ UNCHANGED <<cmdVars, backoffVars, limVars, listVars, regVars, runVars, creatorVars, mergeVars, sanitizeVars, codecVars, filesVars, dbVars, sqlVars, timeoutVars>>

NextReconcile ==
    \/ DirectRegister
    \/ DirectUpdate
    \/ DirectDelete
    \/ ReconcileStart
    \/ ReconcileTarget
    \/ ReconcileSnapshot
    \/ ReconcileRemove
    \/ ReconcileDone
    \/ ReconcileCancel
    \/ ReconcileResultRead

\* ------------------------------------------------------- List and clones
\* bound: maps and Result structs the heap holds
MaxCells == 10

\* values of a map entry or of Result.Status
Values == {"alpha", "beta"}

\* a map with one scalar entry (val, "" = no entry), one nested map (ref, 0 = none)
\* and its "script" entry (script, "" = no entry), or a Result struct with its
\* Status (val) and its Metadata map (ref)
Cell(v, r) == [val |-> v, ref |-> r, script |-> ""]
\* baseTask.scriptContent of the registered task, and a script a caller passes
scriptContent == "task.sql"
callerScript == "caller.sql"
\* make(map[string]any): the empty map
EmptyMap == Cell("", 0)

\* the references of a message: Parameters, Result and Config.Env (0 = nil)
RefMsg(p, r, e) == [Parameters |-> p, Result |-> r, Env |-> e]
NoRefMsg == RefMsg(0, 0, 0)

\* cloneParams: nil for an empty map, else a new map holding the same values
cloneParams(h, p) ==
    IF p = 0 \/ h[p] = EmptyMap
    THEN [heap |-> h, ref |-> 0]
    ELSE [heap |-> Append(h, h[p]), ref |-> Len(h) + 1]

\* cloneExecutionMessage: cloned := *msg, Parameters through cloneParams, Result
\* through resultCopy := *msg.Result
cloneExecutionMessage(h, m) ==
    LET c == cloneParams(h, m.Parameters)
    IN  IF m.Result = 0
        THEN [heap |-> c.heap, msg |-> RefMsg(c.ref, 0, m.Env)]
        ELSE [heap |-> Append(c.heap, c.heap[m.Result]),
              msg |-> RefMsg(c.ref, Len(c.heap) + 1, m.Env)]

\* CompleteExecutionMessage for a task without composer: a new Parameters map with
\* the entries of msg.Parameters, msg.Result itself, Env of the merged Config
completeMessage(h, m) ==
    [heap |-> Append(h, IF m.Parameters # 0 THEN h[m.Parameters] ELSE EmptyMap),
     msg |-> RefMsg(Len(h) + 1, m.Result, m.Env)]

\* baseTask.buildExecutionMessage, lines 421-427, on the copy resolve made of
\* def.Message: a nil Parameters gets a new map, and "script" is set in the map
\* the message holds when the key is absent
buildExecutionMessage(h, m) ==
    IF m.Parameters = 0
    THEN [heap |-> Append(h, [EmptyMap EXCEPT !.script = scriptContent]),
          msg |-> RefMsg(Len(h) + 1, m.Result, m.Env)]
    ELSE [heap |-> IF h[m.Parameters].script = ""
                   THEN [h EXCEPT ![m.Parameters].script = scriptContent]
                   ELSE h,
          msg |-> m]

\* the definitions a caller builds: with or without Parameters, nested value,
\* "script" entry, Result, Result.Metadata and Config.Env
CallerShapes == [params : BOOLEAN, nested : BOOLEAN, script : BOOLEAN, result : BOOLEAN,
                 metadata : BOOLEAN, env : BOOLEAN]

\* the heap and message of a caller's definition of shape sh
callerBuild(sh) ==
    LET h1 == IF sh.nested THEN <<Cell("alpha", 0)>> ELSE <<>>
        n == Len(h1)
        h2 == IF sh.params
              THEN Append(h1, [Cell("alpha", n) EXCEPT
                                 !.script = IF sh.script THEN callerScript ELSE ""])
              ELSE h1
        p == IF sh.params THEN Len(h2) ELSE 0
        h3 == IF sh.metadata THEN Append(h2, Cell("alpha", 0)) ELSE h2
        md == IF sh.metadata THEN Len(h3) ELSE 0
        h4 == IF sh.result THEN Append(h3, Cell("alpha", md)) ELSE h3
        r == IF sh.result THEN Len(h4) ELSE 0
        h5 == IF sh.env THEN Append(h4, Cell("alpha", 0)) ELSE h4
        e == IF sh.env THEN Len(h5) ELSE 0
    IN  [heap |-> h5, msg |-> RefMsg(p, r, e)]

InitList ==
    /\ heap = <<>>
    /\ callerMsg = NoRefMsg
    /\ jobMsg = NoRefMsg
    /\ storedMsg = NoRefMsg
    /\ listedMsg = NoRefMsg
    /\ tickMsg = NoRefMsg

\* the schedule is registered: its job closure holds a message
Scheduled == jobMsg # NoRefMsg

\* Register: resolve completes the caller's message (through the task when it is
\* a messageComposer, as baseTask is), stores a clone of it in the entry and hands
\* the completed message to the job closure
ListRegister ==
    /\ ~Scheduled
    /\ \E sh \in CallerShapes, composer \in BOOLEAN :
         /\ sh.nested => sh.params
         /\ sh.script => (sh.params /\ ~sh.nested /\ ~sh.result /\ ~sh.env)
         /\ sh.metadata => sh.result
         /\ LET b == callerBuild(sh)
                x == IF composer THEN buildExecutionMessage(b.heap, b.msg)
                     ELSE completeMessage(b.heap, b.msg)
                c == cloneExecutionMessage(x.heap, x.msg)
            IN  /\ callerMsg' = b.msg
                /\ jobMsg' = x.msg
                /\ storedMsg' = c.msg
                /\ heap' = c.heap
    /\ UNCHANGED <<listedMsg, tickMsg>>
    /\ UNCHANGED nonListVars

\* List: cloneScheduleDefinition of the stored definition
List ==
    /\ Scheduled
    /\ LET c == cloneExecutionMessage(heap, storedMsg)
       IN  /\ Len(c.heap) <= MaxCells
           /\ listedMsg' = c.msg
           /\ heap' = c.heap
    /\ UNCHANGED <<callerMsg, jobMsg, storedMsg, tickMsg>>
    /\ UNCHANGED nonListVars

\* a tick of the schedule: the job closure executes cloneExecutionMessage(msg)
Tick ==
    /\ Scheduled
    /\ LET c == cloneExecutionMessage(heap, jobMsg)
       IN  /\ Len(c.heap) <= MaxCells
           /\ tickMsg' = c.msg
           /\ heap' = c.heap
    /\ UNCHANGED <<callerMsg, jobMsg, storedMsg, listedMsg>>
    /\ UNCHANGED nonListVars

\* the maps and structs a holder of message m can write to: Parameters and its
\* nested map, the Result and its Metadata, Config.Env
Writable(h, m) ==
    LET direct == {m.Parameters, m.Result, m.Env} \ {0}
    IN  direct \cup ({ h[r].ref : r \in {m.Parameters, m.Result} \ {0} } \ {0})

\* the caller writes a value through the definition List returned
CallerWrite ==
    /\ listedMsg # NoRefMsg
    /\ \E r \in Writable(heap, listedMsg), v \in Values :
         /\ heap[r].val # v
         /\ heap' = [heap EXCEPT ![r] = [@ EXCEPT !.val = v]]
    /\ UNCHANGED <<callerMsg, jobMsg, storedMsg, listedMsg, tickMsg>>
    /\ UNCHANGED nonListVars

NextList ==
    \/ ListRegister
    \/ List
    \/ Tick
    \/ CallerWrite

\* the task or engine a tick runs writes a value through the message of that tick
TaskWrite ==
    /\ tickMsg # NoRefMsg
    /\ \E r \in Writable(heap, tickMsg), v \in Values :
         /\ heap[r].val # v
         /\ heap' = [heap EXCEPT ![r] = [@ EXCEPT !.val = v]]
    /\ UNCHANGED <<callerMsg, jobMsg, storedMsg, listedMsg, tickMsg>>
    /\ UNCHANGED nonListVars

NextTicks ==
    \/ ListRegister
    \/ List
    \/ Tick
    \/ TaskWrite

\* ---------------------------------------------------- computeBackoffDelay
\* bound: largest attempt number handed to computeBackoffDelay
MaxAttempt == 3

\* the configurations and attempts computeBackoffDelay is called with
BackoffConfigs ==
    [Strategy : {"", BackoffNone, BackoffFixed, BackoffExponential},
     Interval : {0, 50, 100, 6000},
     MaxInterval : {0, 150},
     Jitter : BOOLEAN]
NoArgs == [attempt |-> 0, cfg |-> NoBackoff]
NotComputed == -1

InitBackoff ==
    /\ backoffArgs \in [attempt : 0 .. MaxAttempt, cfg : BackoffConfigs]
    /\ backoffDelay = NotComputed

\* no call of computeBackoffDelay is under way
BackoffOff ==
    /\ backoffArgs = NoArgs
    /\ backoffDelay = NotComputed

\* one call of computeBackoffDelay
ComputeBackoff ==
    /\ backoffDelay = NotComputed
    /\ backoffDelay' \in computeBackoffDelay(backoffArgs.attempt, backoffArgs.cfg)
    /\ UNCHANGED backoffArgs
    /\ UNCHANGED nonBackoffVars

\* ------------------------------------------------ ConcurrencyLimiter, scoped
Holders == {"h1", "h2", "h3"}
\* the scope extractor: none configured, or one returning the message's tenant
NoExtractor == "nil"
TenantExtractor == "tenant"
Scopes == {"", "a", "b"}
LimMessages == [JobID : {TaskID}, tenant : Scopes]
Limits == {0, 1, MaxLimit}

\* a key derivation that ignores the scope
scopeKeyJobOnly(extractor, m) == m.JobID

\* Acquire, lines 40-45: the compound key of a message
scopeKey(extractor, m) ==
    IF extractor # NoExtractor /\ m.tenant # ""
    THEN m.JobID \o "|" \o m.tenant
    ELSE m.JobID

LimKeys == { scopeKey(TenantExtractor, m) : m \in LimMessages }
NoCall == [msg |-> [JobID |-> "", tenant |-> ""], limit |-> 0, ret |-> Pending, key |-> ""]

InitLimiter ==
    /\ scopeExtractor = NoExtractor
    /\ lsem = [k \in LimKeys |-> NoChan]
    /\ lcall = [h \in Holders |-> NoCall]

\* ConcurrencyLimiter.WithScopeExtractor
WithScopeExtractor ==
    /\ \E fn \in {NoExtractor, TenantExtractor} :
         /\ fn # scopeExtractor
         /\ scopeExtractor' = fn
    /\ UNCHANGED <<lsem, lcall>>
    /\ UNCHANGED nonLimVars

\* ConcurrencyLimiter.Acquire(msg, limit) called by h, which holds no release closure
LimAcquire(h) ==
    /\ lcall[h].ret # Nil
    /\ \E m \in LimMessages, limit \in Limits :
         IF limit <= 0
         THEN /\ lcall' = [lcall EXCEPT ![h] = [msg |-> m, limit |-> limit, ret |-> Nil,
                                                key |-> ""]]
              /\ lsem' = lsem
         ELSE LET key == scopeKey(scopeExtractor, m)
                  r == Acquire(lsem, key, limit)
              IN  /\ lsem' = r.sem
                  /\ lcall' = [lcall EXCEPT ![h] =
                                  [msg |-> m, limit |-> limit, ret |-> r.err,
                                   key |-> IF r.err = Nil THEN key ELSE ""]]
    /\ UNCHANGED scopeExtractor
    /\ UNCHANGED nonLimVars

\* h calls the release closure it got from Acquire
LimRelease(h) ==
    /\ lcall[h].ret = Nil
    /\ lsem' = IF lcall[h].key = "" THEN lsem ELSE Release(lsem, lcall[h].key)
    /\ lcall' = [lcall EXCEPT ![h] = NoCall]
    /\ UNCHANGED scopeExtractor
    /\ UNCHANGED nonLimVars

NextLimiter ==
    \/ WithScopeExtractor
    \/ \E h \in Holders : LimAcquire(h) \/ LimRelease(h)

\* c.scope of the TaskCommander each holder executes through: the first is
\* configured WithScopeExtractor, the others are not. All of them use the
\* package's defaultConcurrencyLimiter
commanderScope ==
    [h \in Holders |-> IF h = "h1" THEN TenantExtractor ELSE NoExtractor]

\* TaskCommander.acquireConcurrency of h's commander: no slot is asked for when
\* MaxConcurrency <= 0; else a commander with a scope calls WithScopeExtractor on
\* the limiter it shares, and Acquire derives the key from the limiter's extractor
CommanderAcquire(h) ==
    /\ lcall[h].ret # Nil
    /\ \E m \in LimMessages, limit \in Limits :
         IF limit <= 0
         THEN /\ lcall' = [lcall EXCEPT ![h] = [msg |-> m, limit |-> limit, ret |-> Nil,
                                                key |-> ""]]
              /\ UNCHANGED <<lsem, scopeExtractor>>
         ELSE LET extractor == IF commanderScope[h] # NoExtractor
                               THEN commanderScope[h]
                               ELSE scopeExtractor
                  key == scopeKey(extractor, m)
                  r == Acquire(lsem, key, limit)
              IN  /\ scopeExtractor' = extractor
                  /\ lsem' = r.sem
                  /\ lcall' = [lcall EXCEPT ![h] =
                                  [msg |-> m, limit |-> limit, ret |-> r.err,
                                   key |-> IF r.err = Nil THEN key ELSE ""]]
    /\ UNCHANGED nonLimVars

NextCommanders ==
    \E h \in Holders : CommanderAcquire(h) \/ LimRelease(h)

\* ------------------------------------------------------------ memoryRegistry
Adders == {"g1", "g2", "g3"}
RegIDs == {"task-1", "task-2"}

\* a task object: its GetID() and where it came from (which goroutine or creator
\* made it, and its position there)
RTask(id, origin, k) == [id |-> id, origin |-> origin, pos |-> k]
NoTask == RTask("", "", 0)

\* sync.Mutex: free when nobody holds it
NoHolder == ""
\* a mutex that lets everybody in
mxAlwaysFree(mx) == TRUE

\* r.mx.Lock() returns only when the mutex is free
mxFree(mx) == mx = NoHolder

\* memoryRegistry.Add, lines 25-31, as run under the lock: the error and the map
RegistryAdd(js, task) ==
    IF js[task.id] # NoTask
    THEN [err |-> Sentinel("already exists"), jobs |-> js]
    ELSE [err |-> Nil, jobs |-> [js EXCEPT ![task.id] = task]]

\* memoryRegistry.List: the values of the map
RegistryList(js) == { js[id] : id \in { i \in DOMAIN js : js[i] # NoTask } }

\* NewMemoryRegistry, and no Add under way
RegOff ==
    /\ jobs = [id \in RegIDs |-> NoTask]
    /\ regMx = NoHolder
    /\ apc = [g \in Adders |-> "done"]
    /\ atask = [g \in Adders |-> NoTask]
    /\ aret = [g \in Adders |-> Pending]

\* NewMemoryRegistry, and each goroutine about to Add a task of its own
InitRegistry ==
    /\ jobs = [id \in RegIDs |-> NoTask]
    /\ regMx = NoHolder
    /\ apc = [g \in Adders |-> "idle"]
    /\ atask \in { f \in [Adders -> [id : RegIDs, origin : Adders, pos : {0}]] :
                     \A g \in Adders : f[g].origin = g }
    /\ aret = [g \in Adders |-> Pending]

\* Add, line 22: r.mx.Lock()
AddLock(g) ==
    /\ apc[g] = "idle"
    /\ mxFree(regMx)
    /\ regMx' = g
    /\ apc' = [apc EXCEPT ![g] = "check"]
    /\ UNCHANGED <<jobs, atask, aret>>
    /\ UNCHANGED nonRegVars

\* Add, lines 25-28: the lookup; a duplicate returns the error and unlocks (defer)
AddCheck(g) ==
    /\ apc[g] = "check"
    /\ IF jobs[atask[g].id] # NoTask
       THEN /\ aret' = [aret EXCEPT ![g] = RegistryAdd(jobs, atask[g]).err]
            /\ apc' = [apc EXCEPT ![g] = "done"]
            /\ regMx' = NoHolder
       ELSE /\ apc' = [apc EXCEPT ![g] = "store"]
            /\ UNCHANGED <<aret, regMx>>
    /\ UNCHANGED <<jobs, atask>>
    /\ UNCHANGED nonRegVars

\* Add, lines 30-31: the map write, return nil and unlock (defer)
AddStore(g) ==
    /\ apc[g] = "store"
    /\ jobs' = [jobs EXCEPT ![atask[g].id] = atask[g]]
    /\ aret' = [aret EXCEPT ![g] = Nil]
    /\ apc' = [apc EXCEPT ![g] = "done"]
    /\ regMx' = NoHolder
    /\ UNCHANGED atask
    /\ UNCHANGED nonRegVars

NextRegistry ==
    \E g \in Adders :
        \/ AddLock(g)
        \/ AddCheck(g)
        \/ AddStore(g)

\* -------------------------------------------------------------- Runner.Start
\* bound: number of tasks one creator returns
MaxTasks == 2

\* the task creators the Runner holds
CreatorNames == <<"c1", "c2", "c3">>
NumCreators == Len(CreatorNames)

TaskEventRegistered == "registered"
TaskEventRegistrationFailed == "registration_failed"

ErrCreator == Sentinel("creator failed")

\* what CreateTasks of a creator returns: an error, or the IDs of its tasks
CreatorResults ==
    { [err |-> ErrCreator, ids |-> <<>>] }
    \cup
    { [err |-> Nil, ids |-> ids] : ids \in UNION { [1 .. n -> RegIDs] : n \in 0 .. MaxTasks } }

\* the k-th task creator ci returned
TaskOf(cs, ci, k) == RTask(cs[ci].ids[k], CreatorNames[ci], k)

\* the TaskEvent of lines 65-68, 80-86, 90-95 and 165-168
TaskEvent(type, task, e) == [Type |-> type, TaskID |-> task.id, Task |-> task, Err |-> e]

\* an emitTaskEvent that reports successes only
emitRegisteredOnly(evs, event) ==
    IF event.Type = TaskEventRegistered THEN Append(evs, event) ELSE evs

\* Runner.emitTaskEvent: every handler receives the event
emitTaskEvent(evs, event) == Append(evs, event)

\* a cancellation that is not reported
handleCancellationSilently(evs, e) == evs

\* Runner.handleContextCancellation: one registration_failed event carrying the error
handleContextCancellation(evs, e) ==
    IF e = Nil THEN evs
    ELSE emitTaskEvent(evs, TaskEvent(TaskEventRegistrationFailed, NoTask, e))

\* no Runner.Start under way
RunOff ==
    /\ creators = <<>>
    /\ rnpc = "returned"
    /\ rci = 0
    /\ rti = 0
    /\ calls = <<>>
    /\ events = <<>>
    /\ rnctx = FALSE
    /\ rnret = Pending

\* a Runner with its creators, about to Start
InitRunner ==
    /\ creators \in [1 .. NumCreators -> CreatorResults]
    /\ rnpc = "creator"
    /\ rci = 1
    /\ rti = 0
    /\ calls = [i \in 1 .. NumCreators |-> 0]
    /\ events = <<>>
    /\ rnctx = FALSE
    /\ rnret = Pending

\* Start returns e
StartReturn(e) ==
    /\ rnpc' = "returned"
    /\ rnret' = e

\* "if err := ctx.Err(); err != nil { r.handleContextCancellation(err); return err }"
StartCancelled ==
    /\ events' = handleContextCancellation(events, ErrCtx)
    /\ StartReturn(ErrCtx)

\* Start, lines 51-55: the head of the loop over creators
StartNextCreator ==
    /\ rnpc = "creator"
    /\ rci <= Len(creators)
    /\ IF rnctx
       THEN StartCancelled
       ELSE /\ rnpc' = "create"
            /\ UNCHANGED <<events, rnret>>
    /\ UNCHANGED <<creators, rci, rti, calls, rnctx>>
    /\ UNCHANGED regVars
    /\ UNCHANGED nonRunRegVars

\* Start, lines 57-70: CreateTasks and the handling of its error
StartCreate ==
    /\ rnpc = "create"
    /\ calls' = [calls EXCEPT ![rci] = @ + 1]
    /\ IF creators[rci].err # Nil
       THEN IF rnctx
            THEN /\ StartCancelled
                 /\ UNCHANGED <<rci, rti>>
            ELSE /\ events' = emitTaskEvent(events,
                                  TaskEvent(TaskEventRegistrationFailed, NoTask,
                                            creators[rci].err))
                 /\ rci' = rci + 1
                 /\ rnpc' = "creator"
                 /\ UNCHANGED <<rti, rnret>>
       ELSE /\ rti' = 1
            /\ rnpc' = "task"
            /\ UNCHANGED <<rci, events, rnret>>
    /\ UNCHANGED <<creators, rnctx>>
    /\ UNCHANGED regVars
    /\ UNCHANGED nonRunRegVars

\* Start, lines 72-76: the head of the loop over the creator's tasks
StartNextTask ==
    /\ rnpc = "task"
    /\ IF rti > Len(creators[rci].ids)
       THEN /\ rci' = rci + 1
            /\ rnpc' = "creator"
            /\ UNCHANGED <<rti, events, rnret>>
       ELSE IF rnctx
       THEN /\ StartCancelled
            /\ UNCHANGED <<rci, rti>>
       ELSE /\ rnpc' = "add"
            /\ UNCHANGED <<rci, rti, events, rnret>>
    /\ UNCHANGED <<creators, calls, rnctx>>
    /\ UNCHANGED regVars
    /\ UNCHANGED nonRunRegVars

\* Start, lines 78-95: registry.Add and the event of the task
StartAdd ==
    /\ rnpc = "add"
    /\ LET task == TaskOf(creators, rci, rti)
           a == RegistryAdd(jobs, task)
       IN  /\ jobs' = a.jobs
           /\ events' = emitTaskEvent(events,
                            TaskEvent(IF a.err # Nil THEN TaskEventRegistrationFailed
                                      ELSE TaskEventRegistered, task, a.err))
    /\ rti' = rti + 1
    /\ rnpc' = "task"
    /\ UNCHANGED <<creators, rci, calls, rnctx, rnret>>
    /\ UNCHANGED <<regMx, apc, atask, aret>>
    /\ UNCHANGED nonRunRegVars

\* Start, lines 99-104: the last look at the context and the return
StartFinish ==
    /\ rnpc = "creator"
    /\ rci > Len(creators)
    /\ IF rnctx
       THEN StartCancelled
       ELSE /\ StartReturn(Nil)
            /\ UNCHANGED events
    /\ UNCHANGED <<creators, rci, rti, calls, rnctx>>
    /\ UNCHANGED regVars
    /\ UNCHANGED nonRunRegVars

\* the context handed to Start is cancelled while Start runs
RunnerCancel ==
    /\ rnpc # "returned"
    /\ ~rnctx
    /\ rnctx' = TRUE
    /\ UNCHANGED <<creators, rnpc, rci, rti, calls, events, rnret>>
    /\ UNCHANGED regVars
    /\ UNCHANGED nonRunRegVars

NextRunner ==
    \/ StartNextCreator
    \/ StartCreate
    \/ StartNextTask
    \/ StartAdd
    \/ StartFinish
    \/ RunnerCancel

\* ------------------------------------------------- taskCreator.CreateTasks
\* bound: number of scripts the source provider lists
MaxScripts == 3
\* bound: number of engines the creator holds
MaxEngines == 2

ScriptPaths == {"jobs/a.sh", "jobs/B.JS", "jobs/c.txt"}

\* strings.ToLower(filepath.Ext(path))
extLower(path) ==
    CASE path = "jobs/a.sh" -> ".sh"
      [] path = "jobs/B.JS" -> ".js"
      [] OTHER -> ".txt"

\* engines: their FileExtensions and the extensions whose scripts ParseJob rejects
Engine(name, exts, bad) == [name |-> name, FileExtensions |-> exts, rejects |-> bad]
NoEngine == Engine("", {}, {})
Engines ==
    { Engine("shell", {".sh"}, {}),
      Engine("js", {".js"}, {".js"}),
      Engine("any", {".sh", ".js"}, {".sh"}) }

\* BaseEngine.CanHandle
CanHandle(engine, path) == extLower(path) \in engine.FileExtensions

\* Engine.ParseJob: the task and the error
ParseJob(engine, path) ==
    IF extLower(path) \in engine.rejects
    THEN [task |-> NoTask, err |-> Sentinel("parse failed")]
    ELSE [task |-> RTask(path, engine.name, 0), err |-> Nil]

\* the last engine of the list that can handle the path
RECURSIVE lastCompatible(_, _, _)
lastCompatible(engs, i, path) ==
    IF i > Len(engs) THEN NoEngine
    ELSE LET later == lastCompatible(engs, i + 1, path)
         IN  IF later # NoEngine THEN later
             ELSE IF CanHandle(engs[i], path) THEN engs[i] ELSE NoEngine

\* CreateTasks, lines 89-95: the first engine of the list that can handle the path
RECURSIVE compatibleEngine(_, _, _)
compatibleEngine(engs, i, path) ==
    IF i > Len(engs) THEN NoEngine
    ELSE IF CanHandle(engs[i], path) THEN engs[i]
    ELSE compatibleEngine(engs, i + 1, path)

\* no CreateTasks under way
CreatorOff ==
    /\ scripts = <<>>
    /\ listErr = FALSE
    /\ engines = <<>>
    /\ tcpc = "returned"
    /\ tci = 0
    /\ tctasks = <<>>
    /\ tcevents = <<>>
    /\ tcctx = FALSE
    /\ tcret = [tasks |-> <<>>, err |-> Pending]

\* a creator with its engines and a provider with its scripts, before CreateTasks
InitCreator ==
    /\ scripts \in UNION { [1 .. n -> ScriptPaths] : n \in 0 .. MaxScripts }
    /\ listErr \in BOOLEAN
    /\ engines \in UNION { [1 .. n -> Engines] : n \in 0 .. MaxEngines }
    /\ tcpc = "list"
    /\ tci = 0
    /\ tctasks = <<>>
    /\ tcevents = <<>>
    /\ tcctx = FALSE
    /\ tcret = [tasks |-> <<>>, err |-> Pending]

\* CreateTasks returns
CreateReturn(ts, e) ==
    /\ tcpc' = "returned"
    /\ tcret' = [tasks |-> ts, err |-> e]

\* CreateTasks, lines 68-73: ListScripts and its error
CreateList ==
    /\ tcpc = "list"
    /\ IF listErr
       THEN /\ CreateReturn(<<>>, Sentinel("failed to list scripts"))
            /\ UNCHANGED tci
       ELSE /\ tcpc' = "script"
            /\ tci' = 1
            /\ UNCHANGED tcret
    /\ UNCHANGED <<scripts, listErr, engines, tctasks, tcevents, tcctx>>
    /\ UNCHANGED nonCreatorVars

\* CreateTasks, lines 75-123: one iteration of the loop over scripts
CreateScript ==
    /\ tcpc = "script"
    /\ tci <= Len(scripts)
    /\ LET path == scripts[tci]
           engine == compatibleEngine(engines, 1, path)
           parsed == ParseJob(engine, path)
       IN  IF tcctx
           THEN /\ CreateReturn(<<>>, ErrCtx)
                /\ UNCHANGED <<tci, tctasks, tcevents>>
           ELSE IF engine = NoEngine
           THEN /\ tcevents' = Append(tcevents,
                                  [Type |-> TaskEventRegistrationFailed,
                                   ScriptPath |-> path, Task |-> NoTask,
                                   Err |-> Sentinel("no compatible engine")])
                /\ tci' = tci + 1
                /\ UNCHANGED <<tcpc, tcret, tctasks>>
           ELSE IF parsed.err # Nil
           THEN /\ tcevents' = Append(tcevents,
                                  [Type |-> TaskEventRegistrationFailed,
                                   ScriptPath |-> path, Task |-> parsed.task,
                                   Err |-> parsed.err])
                /\ tci' = tci + 1
                /\ UNCHANGED <<tcpc, tcret, tctasks>>
           ELSE /\ tctasks' = Append(tctasks, parsed.task)
                /\ tci' = tci + 1
                /\ UNCHANGED <<tcpc, tcret, tcevents>>
    /\ UNCHANGED <<scripts, listErr, engines, tcctx>>
    /\ UNCHANGED nonCreatorVars

\* CreateTasks, line 124: return tasks, nil
CreateDone ==
    /\ tcpc = "script"
    /\ tci > Len(scripts)
    /\ CreateReturn(tctasks, Nil)
    /\ UNCHANGED <<scripts, listErr, engines, tci, tctasks, tcevents, tcctx>>
    /\ UNCHANGED nonCreatorVars

\* the context handed to CreateTasks is cancelled while it runs
CreateCancel ==
    /\ tcpc # "returned"
    /\ ~tcctx
    /\ tcctx' = TRUE
    /\ UNCHANGED <<scripts, listErr, engines, tcpc, tci, tctasks, tcevents, tcret>>
    /\ UNCHANGED nonCreatorVars

NextCreator ==
    \/ CreateList
    \/ CreateScript
    \/ CreateDone
    \/ CreateCancel

\* ------------------------------------------- mergeConfigDefaults, the flags
\* the boolean fields of Config and the Backoff sub-struct
FlagConfig(nt, dbg, once, exit, tx, bo) ==
    [NoTimeout |-> nt, Debug |-> dbg, RunOnce |-> once, ExitOnError |-> exit,
     Transaction |-> tx, Backoff |-> bo]
ZeroFlagConfig == FlagConfig(FALSE, FALSE, FALSE, FALSE, FALSE, NoBackoff)
FlagConfigs ==
    [NoTimeout : BOOLEAN, Debug : BOOLEAN, RunOnce : BOOLEAN, ExitOnError : BOOLEAN,
     Transaction : BOOLEAN,
     Backoff : [Strategy : {"", BackoffFixed}, Interval : {0}, MaxInterval : {0},
                Jitter : BOOLEAN]]

\* a flag that takes the override's value
replaceFlag(baseFlag, overrideFlag) == overrideFlag

\* "if override.Flag { result.Flag = true }" on result := base
promoteFlag(baseFlag, overrideFlag) == IF overrideFlag THEN TRUE ELSE baseFlag

\* mergeBackoffDefaults, with the flag written as the code writes it
mergeBackoffFlags(base, override) ==
    [Strategy |-> IF override.Strategy # "" THEN override.Strategy ELSE base.Strategy,
     Interval |-> IF override.Interval # 0 THEN override.Interval ELSE base.Interval,
     MaxInterval |-> IF override.MaxInterval # 0 THEN override.MaxInterval
                     ELSE base.MaxInterval,
     Jitter |-> promoteFlag(base.Jitter, override.Jitter)]

\* mergeConfigDefaults, lines 72-80, 84-86, 93-107 and 114-116: the boolean fields
\* and the Backoff sub-struct, field by field and then through mergeBackoffDefaults
mergeConfigFlags(base, override) ==
    LET fieldwise == mergeBackoffFlags(base.Backoff, override.Backoff)
        anySet == \/ override.Backoff.Strategy # ""
                  \/ override.Backoff.Interval # 0
                  \/ override.Backoff.MaxInterval # 0
                  \/ override.Backoff.Jitter
    IN  [NoTimeout |-> promoteFlag(base.NoTimeout, override.NoTimeout),
         Debug |-> promoteFlag(base.Debug, override.Debug),
         RunOnce |-> promoteFlag(base.RunOnce, override.RunOnce),
         ExitOnError |-> promoteFlag(base.ExitOnError, override.ExitOnError),
         Transaction |-> promoteFlag(base.Transaction, override.Transaction),
         Backoff |-> IF anySet THEN mergeBackoffFlags(base.Backoff, override.Backoff)
                     ELSE fieldwise]

\* no merge under way
MergeOff ==
    /\ mergeArgs = [base |-> ZeroFlagConfig, override |-> ZeroFlagConfig]
    /\ merged = [done |-> FALSE, cfg |-> ZeroFlagConfig]

InitMerge ==
    /\ mergeArgs \in [base : FlagConfigs, override : FlagConfigs]
    /\ merged = [done |-> FALSE, cfg |-> ZeroFlagConfig]

\* one call of mergeConfigDefaults
MergeCall ==
    /\ ~merged.done
    /\ merged' = [done |-> TRUE,
                  cfg |-> mergeConfigFlags(mergeArgs.base, mergeArgs.override)]
    /\ UNCHANGED mergeArgs
    /\ UNCHANGED nonMergeVars

\* ------------------------------------------- EncodeEnvelope and its sanitizer
\* copyParams: nil for an empty map, else a new map holding the same values
copyParams(h, p) ==
    IF p = 0 \/ h[p] = EmptyMap
    THEN [heap |-> h, ref |-> 0]
    ELSE [heap |-> Append(h, h[p]), ref |-> Len(h) + 1]

\* sanitizeParams: the sanitizer is handed copyParams(params)
sanitizeParams(h, p) == copyParams(h, p)

\* the Params maps a caller builds: nil, or a map with a scalar entry, a nested
\* map or slice, or both
CallerParams ==
    {[heap |-> <<>>, ref |-> 0]}
    \cup {[heap |-> <<Cell(v, 0)>>, ref |-> 1] : v \in Values \cup {""}}
    \cup {[heap |-> <<Cell(n, 0), Cell(v, 1)>>, ref |-> 2] :
            n \in Values, v \in Values \cup {""}}

\* what a map holds, through its nested value
deepValue(h, p) ==
    IF p = 0 THEN <<"nil", "nil">>
    ELSE <<h[p].val, IF h[p].ref = 0 THEN "none" ELSE h[h[p].ref].val>>

\* no EncodeEnvelope under way
SanitizeOff ==
    /\ pheap = <<>>
    /\ pcaller = 0
    /\ pbefore = <<"nil", "nil">>
    /\ sarg = 0
    /\ spc = "done"

InitSanitize ==
    /\ \E c \in CallerParams :
         /\ pheap = c.heap
         /\ pcaller = c.ref
         /\ pbefore = deepValue(c.heap, c.ref)
    /\ sarg = 0
    /\ spc = "idle"

\* EncodeEnvelope up to the call of the sanitizer: Validate passes, working :=
\* env.clone() copies Params once, sanitizeParams copies env.Params again
EncodeStart ==
    /\ spc = "idle"
    /\ LET w == copyParams(pheap, pcaller)
           s == sanitizeParams(w.heap, pcaller)
       IN  /\ pheap' = s.heap
           /\ sarg' = s.ref
    /\ spc' = "sanitizing"
    /\ UNCHANGED <<pcaller, pbefore>>
    /\ UNCHANGED nonSanitizeVars

\* the sanitizer sets or deletes the scalar entry of the map it received or of
\* the map nested in it
SanitizerWrite ==
    /\ spc = "sanitizing"
    /\ sarg # 0
    /\ \E r \in {sarg, pheap[sarg].ref} \ {0}, v \in Values \cup {""} :
         /\ pheap[r].val # v
         /\ pheap' = [pheap EXCEPT ![r] = [@ EXCEPT !.val = v]]
    /\ UNCHANGED <<pcaller, pbefore, sarg, spc>>
    /\ UNCHANGED nonSanitizeVars

\* the sanitizer deletes the nested entry of the map it received
SanitizerDrop ==
    /\ spc = "sanitizing"
    /\ sarg # 0
    /\ pheap[sarg].ref # 0
    /\ pheap' = [pheap EXCEPT ![sarg] = [@ EXCEPT !.ref = 0]]
    /\ UNCHANGED <<pcaller, pbefore, sarg, spc>>
    /\ UNCHANGED nonSanitizeVars

\* the sanitizer returns; EncodeEnvelope marshals working and returns the payload
EncodeReturn ==
    /\ spc = "sanitizing"
    /\ spc' = "returned"
    /\ UNCHANGED <<pheap, pcaller, pbefore, sarg>>
    /\ UNCHANGED nonSanitizeVars

NextSanitize ==
    \/ EncodeStart
    \/ SanitizerWrite
    \/ SanitizerDrop
    \/ EncodeReturn

\* ------------------------------------------- the size ceiling of the envelope codec
DefaultEnvelopeMaxBytes == 65536

\* bytes json.Marshal writes for an envelope without actor, params or key:
\* {"scope":{}}
EmptyEnvelopeBytes == 12
\* bytes it writes around the value of a string param named "big":
\* ,"params":{"big":""}
BigParamBytes == 20

\* WithEnvelopeMaxBytes(limit), or no option
MaxBytesOption(given, limit) == [given |-> given, limit |-> limit]
MaxBytesOptions ==
    {MaxBytesOption(FALSE, 0)}
    \cup {MaxBytesOption(TRUE, l) : l \in {-1, 0, 16, 64, DefaultEnvelopeMaxBytes, 70000}}

\* lengths of the "big" param of the envelope to encode (-1 = no params)
BigLengths == {-1, 0, 32, 65504, 65505}
\* lengths of the data handed to DecodeEnvelope
DataLengths == {12, 64, 65536, 65537}

\* buildEnvelopeConfig: the default ceiling unless an option sets another
buildEnvelopeConfig(opt) ==
    [maxBytes |-> IF opt.given THEN opt.limit ELSE DefaultEnvelopeMaxBytes]

\* len(json.Marshal(working))
marshalLen(big) ==
    IF big < 0 THEN EmptyEnvelopeBytes ELSE EmptyEnvelopeBytes + BigParamBytes + big

\* cfg.maxBytes > 0 && len(payload) > cfg.maxBytes
exceedsLimit(cfg, size) == cfg.maxBytes > 0 /\ size > cfg.maxBytes

CodecResult(kind, size) == [kind |-> kind, size |-> size]
NoCodecResult == CodecResult("none", 0)

\* EncodeEnvelope of a valid envelope: the payload, or a validation error
EncodeEnvelope(big, opt) ==
    LET cfg == buildEnvelopeConfig(opt)
        size == marshalLen(big)
    IN  IF exceedsLimit(cfg, size) THEN CodecResult("validation", size)
        ELSE CodecResult("payload", size)

\* DecodeEnvelope of well-formed data: the envelope with RawContentBytes, or a
\* validation error
DecodeEnvelope(size, opt) ==
    LET cfg == buildEnvelopeConfig(opt)
    IN  IF exceedsLimit(cfg, size) THEN CodecResult("validation", size)
        ELSE CodecResult("envelope", size)

\* no codec call under way
CodecOff ==
    /\ eopt = MaxBytesOption(FALSE, 0)
    /\ ebig = -1
    /\ edata = 0
    /\ encoded = CodecResult("off", 0)
    /\ decoded = CodecResult("off", 0)

InitCodec ==
    /\ eopt \in MaxBytesOptions
    /\ ebig \in BigLengths
    /\ edata \in DataLengths
    /\ encoded = NoCodecResult
    /\ decoded = NoCodecResult

\* a call of EncodeEnvelope
Encode ==
    /\ encoded = NoCodecResult
    /\ encoded' = EncodeEnvelope(ebig, eopt)
    /\ UNCHANGED <<eopt, ebig, edata, decoded>>
    /\ UNCHANGED nonCodecVars

\* a call of DecodeEnvelope on data of the given length
Decode ==
    /\ decoded = NoCodecResult
    /\ decoded' = DecodeEnvelope(edata, eopt)
    /\ UNCHANGED <<eopt, ebig, edata, encoded>>
    /\ UNCHANGED nonCodecVars

\* a call of DecodeEnvelope on the payload EncodeEnvelope returned
DecodePayload ==
    /\ decoded = NoCodecResult
    /\ encoded.kind = "payload"
    /\ decoded' = DecodeEnvelope(encoded.size, eopt)
    /\ UNCHANGED <<eopt, ebig, edata, encoded>>
    /\ UNCHANGED nonCodecVars

NextCodec ==
    \/ Encode
    \/ Decode
    \/ DecodePayload

\* ------------------------------------------- FileSystemSourceProvider.ListScripts
\* files the walk visits
MaxFiles == 2
\* chunks a file yields before end of file
MaxChunks == 2

\* maxFileSize, in chunks (0 = no limit)
FileSizeLimits == {0, 1}

\* a file handle dropped without Close
abandonOnCancel(n) == n

\* "_ = file.Close()" when the context is done right after Open
closeOnCancel(n) == n + 1

\* no ListScripts under way
FilesOff ==
    /\ nfiles = 0
    /\ fmax = 0
    /\ fpc = "returned"
    /\ fidx = 0
    /\ fopen = FALSE
    /\ ftotal = 0
    /\ ferr = ""
    /\ opens = 0
    /\ closes = 0
    /\ fscripts = 0
    /\ fctx = FALSE
    /\ fret = "off"

InitFiles ==
    /\ nfiles \in 0..MaxFiles
    /\ fmax \in FileSizeLimits
    /\ fpc = "walk"
    /\ fidx = 1
    /\ fopen = FALSE
    /\ ftotal = 0
    /\ ferr = ""
    /\ opens = 0
    /\ closes = 0
    /\ fscripts = 0
    /\ fctx = FALSE
    /\ fret = ""

\* ListScripts returns: the walk stops with the error, or ends
FsReturn(r) ==
    /\ fpc' = "returned"
    /\ fret' = r

\* the walk callback on the next file, up to p.fs.Open in loadScriptContent
FsVisit ==
    /\ fpc = "walk"
    /\ fidx <= nfiles
    /\ IF fctx
       THEN /\ FsReturn("ctx")
            /\ UNCHANGED <<fopen, opens>>
       ELSE \E opened \in BOOLEAN :
              IF opened
              THEN /\ fopen' = TRUE
                   /\ opens' = opens + 1
                   /\ fpc' = "opened"
                   /\ UNCHANGED fret
              ELSE /\ FsReturn("open_error")
                   /\ UNCHANGED <<fopen, opens>>
    /\ UNCHANGED <<nfiles, fmax, fidx, ftotal, ferr, closes, fscripts, fctx>>
    /\ UNCHANGED nonFilesVars

\* loadScriptContent after Open: the context check that closes the file
FsOpened ==
    /\ fpc = "opened"
    /\ IF fctx
       THEN /\ closes' = closeOnCancel(closes)
            /\ fopen' = (closes' = closes)
            /\ FsReturn("ctx")
       ELSE /\ fpc' = "stat"
            /\ UNCHANGED <<closes, fopen, fret>>
    /\ UNCHANGED <<nfiles, fmax, fidx, ftotal, ferr, opens, fscripts, fctx>>
    /\ UNCHANGED nonFilesVars

\* readFile up to its loop: context check, then Stat against maxFileSize
FsStat ==
    /\ fpc = "stat"
    /\ IF fctx
       THEN /\ ferr' = "ctx"
            /\ fpc' = "close"
       ELSE \E tooLarge \in BOOLEAN :
              /\ tooLarge => fmax > 0
              /\ ferr' = IF tooLarge THEN "too_large" ELSE ""
              /\ fpc' = IF tooLarge THEN "close" ELSE "read"
    /\ ftotal' = 0
    /\ UNCHANGED <<nfiles, fmax, fidx, fopen, opens, closes, fscripts, fctx, fret>>
    /\ UNCHANGED nonFilesVars

\* one iteration of the read loop
FsRead ==
    /\ fpc = "read"
    /\ IF fctx
       THEN /\ ferr' = "ctx"
            /\ fpc' = "close"
            /\ UNCHANGED ftotal
       ELSE \E outcome \in {"data", "eof", "error"} :
              /\ outcome = "data" => ftotal < MaxChunks
              /\ ftotal' = IF outcome = "data" THEN ftotal + 1 ELSE ftotal
              /\ ferr' = CASE outcome = "data" /\ fmax > 0 /\ ftotal' > fmax -> "too_large"
                           [] outcome = "error" -> "read_error"
                           [] OTHER -> ""
              /\ fpc' = IF outcome = "data" /\ ferr' = "" THEN "read" ELSE "close"
    /\ UNCHANGED <<nfiles, fmax, fidx, fopen, opens, closes, fscripts, fctx, fret>>
    /\ UNCHANGED nonFilesVars

\* loadScriptContent after readFile: file.Close(), then the errors in order and
\* the last context check; the callback appends the script
FsClose ==
    /\ fpc = "close"
    /\ closes' = closes + 1
    /\ fopen' = FALSE
    /\ \E closed \in BOOLEAN :
         IF ferr # "" THEN /\ FsReturn(ferr) /\ UNCHANGED fscripts
         ELSE IF ~closed THEN /\ FsReturn("close_error") /\ UNCHANGED fscripts
         ELSE IF fctx THEN /\ FsReturn("ctx") /\ UNCHANGED fscripts
         ELSE /\ fscripts' = fscripts + 1
              /\ fpc' = "appended"
              /\ UNCHANGED fret
    /\ UNCHANGED <<nfiles, fmax, fidx, ftotal, ferr, opens, fctx>>
    /\ UNCHANGED nonFilesVars

\* the callback after runtime.Gosched: the context check, then the next entry
FsAppended ==
    /\ fpc = "appended"
    /\ IF fctx
       THEN /\ FsReturn("ctx")
            /\ UNCHANGED fidx
       ELSE /\ fidx' = fidx + 1
            /\ fpc' = "walk"
            /\ UNCHANGED fret
    /\ UNCHANGED <<nfiles, fmax, fopen, ftotal, ferr, opens, closes, fscripts, fctx>>
    /\ UNCHANGED nonFilesVars

\* the walk is over: the last context check of ListScripts
FsDone ==
    /\ fpc = "walk"
    /\ fidx > nfiles
    /\ FsReturn(IF fctx THEN "ctx" ELSE "ok")
    /\ UNCHANGED <<nfiles, fmax, fidx, fopen, ftotal, ferr, opens, closes, fscripts, fctx>>
    /\ UNCHANGED nonFilesVars

\* the caller cancels the context
FsCancel ==
    /\ fpc # "returned"
    /\ ~fctx
    /\ fctx' = TRUE
    /\ UNCHANGED <<nfiles, fmax, fpc, fidx, fopen, ftotal, ferr, opens, closes, fscripts,
                   fret>>
    /\ UNCHANGED nonFilesVars

NextFiles ==
    \/ FsVisit
    \/ FsOpened
    \/ FsStat
    \/ FsRead
    \/ FsClose
    \/ FsAppended
    \/ FsDone
    \/ FsCancel

\* ------------------------------------------- DBSourceProvider and its table name
\* longest table name
MaxNameLen == 3

\* [A-Za-z0-9_]
WordChars == {"t", "7", "_"}
\* the characters of a table name: word characters, the dot, and others
NameChars == WordChars \cup {".", ";", " "}

\* the table names of length n or less
RECURSIVE NamesUpTo(_)
NamesUpTo(n) ==
    IF n = 0 THEN {<<>>}
    ELSE LET shorter == NamesUpTo(n - 1)
         IN  shorter \cup {Append(s, c) : s \in {t \in shorter : Len(t) = n - 1},
                                           c \in NameChars}
TableNames == NamesUpTo(MaxNameLen)

\* the automaton of ^[A-Za-z0-9_]+(\.[A-Za-z0-9_]+)*$ from position i in state st:
\* "segment" expects the first character of a segment, "word" is inside one
RECURSIVE matchFrom(_, _, _)
matchFrom(s, i, st) ==
    IF i > Len(s) THEN st = "word"
    ELSE IF s[i] \in WordChars THEN matchFrom(s, i + 1, "word")
    ELSE IF s[i] = "." /\ st = "word" THEN matchFrom(s, i + 1, "segment")
    ELSE FALSE

\* a check that accepts every name
matchAnything(s) == TRUE

\* re.MatchString(table)
MatchString(s) == matchFrom(s, 1, "segment")

DbResult(kind, queries) == [kind |-> kind, queries |-> queries]
NoDbResult == DbResult("none", 0)

\* safeTable: the error of an empty or an invalid name, "" for a name it accepts
safeTable(table) ==
    IF table = <<>> THEN "empty_table"
    ELSE IF ~MatchString(table) THEN "invalid_table"
    ELSE ""

\* what the database answers to a GetScript query
GetOutcomes == {"content", "not_found", "query_error"}
\* what it answers to a ListScripts query
ListOutcomes == {"scripts", "query_error", "scan_error", "rows_error", "ctx"}

\* no provider call under way
DbOff ==
    /\ dbTable = <<>>
    /\ dbCall = "off"
    /\ dbRet = NoDbResult

InitDb ==
    /\ dbTable \in TableNames
    /\ dbCall = ""
    /\ dbRet = NoDbResult

\* GetScript: safeTable, then one QueryRow
DbGetScript ==
    /\ dbCall = ""
    /\ dbCall' = "GetScript"
    /\ LET tableErr == safeTable(dbTable)
       IN  IF tableErr # "" THEN dbRet' = DbResult(tableErr, 0)
           ELSE \E o \in GetOutcomes : dbRet' = DbResult(o, 1)
    /\ UNCHANGED dbTable
    /\ UNCHANGED nonDbVars

\* ListScripts: safeTable, then one QueryContext
DbListScripts ==
    /\ dbCall = ""
    /\ dbCall' = "ListScripts"
    /\ LET tableErr == safeTable(dbTable)
       IN  IF tableErr # "" THEN dbRet' = DbResult(tableErr, 0)
           ELSE \E o \in ListOutcomes : dbRet' = DbResult(o, 1)
    /\ UNCHANGED dbTable
    /\ UNCHANGED nonDbVars

NextDb ==
    \/ DbGetScript
    \/ DbListScripts

\* ------------------------------------------- SQLEngine.Execute
\* statements of one script
MaxStmts == 2

\* Config.Transaction and Config.Metadata["transaction"]: absent (or no bool), true
\* or false
SqlConfigs == [Transaction : BOOLEAN, Meta : {"absent", "true", "false"}]

\* the scripts, as the outcome of each statement: TRUE when the database accepts it
Scripts == UNION { [1 .. n -> BOOLEAN] : n \in 0 .. MaxStmts }

\* lines 82-87: the metadata flag decides when it is a bool, else Config.Transaction
useTransaction(cfg) ==
    IF cfg.Meta # "absent" THEN cfg.Meta = "true" ELSE cfg.Transaction

SqlNil == [kind |-> "nil", index |-> 0]
SqlError(kind, i) == [kind |-> kind, index |-> i]

\* executeDirectly hands the statement's error to execCallback and goes on: nothing
\* of it reaches the value the loop returns
directResult(outcomes, i) == SqlNil

\* no Execute under way
SqlOff ==
    /\ sqCfg = [Transaction |-> FALSE, Meta |-> "absent"]
    /\ sqScript = <<>>
    /\ sqpc = "off"
    /\ sqi = 0
    /\ sqTx = <<>>
    /\ sqRan = <<>>
    /\ sqErr = SqlNil
    /\ sqRet = SqlNil

InitSql ==
    /\ sqCfg \in SqlConfigs
    /\ sqScript \in Scripts
    /\ sqpc = "start"
    /\ sqi = 0
    /\ sqTx = <<>>
    /\ sqRan = <<>>
    /\ sqErr = SqlNil
    /\ sqRet = SqlNil

\* Execute up to the loop of its mode: executeInTransaction begins the transaction
\* (BeginTx may fail), executeDirectly begins nothing
SqlStart ==
    /\ sqpc = "start"
    /\ IF useTransaction(sqCfg)
       THEN \E begun \in BOOLEAN :
              IF begun
              THEN /\ sqTx' = <<"begin">>
                   /\ sqpc' = "tx"
                   /\ UNCHANGED sqRet
              ELSE /\ sqRet' = SqlError("begin_error", 0)
                   /\ sqpc' = "returned"
                   /\ UNCHANGED sqTx
       ELSE /\ sqpc' = "direct"
            /\ UNCHANGED <<sqTx, sqRet>>
    /\ sqi' = 1
    /\ UNCHANGED <<sqCfg, sqScript, sqRan, sqErr>>
    /\ UNCHANGED nonSqlVars

\* executeInTransaction: one statement; a failure rolls back and returns
SqlTxStatement ==
    /\ sqpc = "tx"
    /\ sqi <= Len(sqScript)
    /\ sqRan' = Append(sqRan, sqi)
    /\ IF sqScript[sqi]
       THEN /\ sqi' = sqi + 1
            /\ UNCHANGED <<sqTx, sqRet, sqpc>>
       ELSE /\ sqTx' = Append(sqTx, "rollback")
            /\ sqRet' = SqlError("statement_error", sqi)
            /\ sqpc' = "returned"
            /\ UNCHANGED sqi
    /\ UNCHANGED <<sqCfg, sqScript, sqErr>>
    /\ UNCHANGED nonSqlVars

\* executeInTransaction after the loop: Commit, which may fail
SqlCommit ==
    /\ sqpc = "tx"
    /\ sqi > Len(sqScript)
    /\ sqTx' = Append(sqTx, "commit")
    /\ \E committed \in BOOLEAN :
         sqRet' = IF committed THEN SqlNil ELSE SqlError("commit_error", 0)
    /\ sqpc' = "returned"
    /\ UNCHANGED <<sqCfg, sqScript, sqi, sqRan, sqErr>>
    /\ UNCHANGED nonSqlVars

\* executeDirectly: one statement, whose error goes to execCallback only
SqlDirectStatement ==
    /\ sqpc = "direct"
    /\ sqi <= Len(sqScript)
    /\ sqRan' = Append(sqRan, sqi)
    /\ sqErr' = IF sqErr = SqlNil THEN directResult(sqScript, sqi) ELSE sqErr
    /\ sqi' = sqi + 1
    /\ UNCHANGED <<sqCfg, sqScript, sqTx, sqRet, sqpc>>
    /\ UNCHANGED nonSqlVars

\* executeDirectly after the loop: Execute returns what the loop kept
SqlDirectReturn ==
    /\ sqpc = "direct"
    /\ sqi > Len(sqScript)
    /\ sqRet' = sqErr
    /\ sqpc' = "returned"
    /\ UNCHANGED <<sqCfg, sqScript, sqi, sqTx, sqRan, sqErr>>
    /\ UNCHANGED nonSqlVars

NextSql ==
    \/ SqlStart
    \/ SqlTxStatement
    \/ SqlCommit
    \/ SqlDirectStatement
    \/ SqlDirectReturn

\* ------------------------------------------- BaseEngine.GetExecutionContext
\* bound: latest reading of the clock, in seconds
MaxClock == 3

\* NewBaseEngine: Timeout: 30 * time.Second
DefaultEngineTimeout == 30
\* e.Timeout: the default, or one set through an engine option
EngineTimeouts == {DefaultEngineTimeout, 1}
\* ctx.Deadline() of a context without deadline
NoDeadline == -1
\* the deadline of the inbound context
Deadlines == {NoDeadline} \cup (0 .. MaxClock + 1)

\* BaseEngine.GetExecutionTimeout read at time now: e.Timeout, or the time until
\* the inbound deadline when there is one
GetExecutionTimeout(timeout, inbound, now) ==
    IF inbound # NoDeadline THEN inbound - now ELSE timeout

\* context.WithTimeout(parent, d) called at time now: the deadline of the context
\* it returns, which is the parent's when that one is earlier
WithTimeout(inbound, now, d) ==
    IF inbound # NoDeadline /\ inbound < now + d THEN inbound ELSE now + d

\* no engine is deriving an execution context
TimeoutOff ==
    /\ etNoTimeout = FALSE
    /\ etEngine = 0
    /\ etInbound = NoDeadline
    /\ etNow = 0
    /\ etpc = "done"
    /\ etTimeout = 0
    /\ etDeadline = NoDeadline

\* an engine is handed a message and a context at some time
InitTimeout ==
    /\ etNoTimeout \in BOOLEAN
    /\ etEngine \in EngineTimeouts
    /\ etInbound \in Deadlines
    /\ etNow \in 0 .. MaxClock
    /\ etpc = "start"
    /\ etTimeout = 0
    /\ etDeadline = NoDeadline

\* GetExecutionContext, line 165: execTimeout := e.GetExecutionTimeout(ctx)
ExecTimeout ==
    /\ etpc = "start"
    /\ etTimeout' = GetExecutionTimeout(etEngine, etInbound, etNow)
    /\ etpc' = "timeout"
    /\ UNCHANGED <<etNoTimeout, etEngine, etInbound, etNow, etDeadline>>
    /\ UNCHANGED nonTimeoutVars

\* GetExecutionContext, line 166: context.WithTimeout(ctx, execTimeout)
ExecContext ==
    /\ etpc = "timeout"
    /\ etDeadline' = WithTimeout(etInbound, etNow, etTimeout)
    /\ etpc' = "done"
    /\ UNCHANGED <<etNoTimeout, etEngine, etInbound, etNow, etTimeout>>
    /\ UNCHANGED nonTimeoutVars

\* time passes while the engine derives the context
ClockPasses ==
    /\ etpc # "done"
    /\ etNow < MaxClock
    /\ etNow' = etNow + 1
    /\ UNCHANGED <<etNoTimeout, etEngine, etInbound, etpc, etTimeout, etDeadline>>
    /\ UNCHANGED nonTimeoutVars

NextTimeout ==
    \/ ExecTimeout
    \/ ExecContext
    \/ ClockPasses

\* every subsystem below is at rest, except the one named
MoreOff(g) ==
    /\ g # "registry" => RegOff
    /\ g # "runner" => RunOff
    /\ g # "creator" => CreatorOff
    /\ g # "merge" => MergeOff
    /\ g # "sanitize" => SanitizeOff
    /\ g # "codec" => CodecOff
    /\ g # "files" => FilesOff
    /\ g # "db" => DbOff
    /\ g # "sql" => SqlOff
    /\ g # "timeout" => TimeoutOff

\* the TaskCommander and the CronManager at rest
CmdOff ==
    /\ InitCmd
    /\ taskCfg = [Retries |-> 0, MaxConcurrency |-> 0, Backoff |-> NoBackoff]

\* computeBackoffDelay applied to every configuration and attempt
InitCompute == InitBackoff /\ CmdOff /\ InitCron /\ InitLimiter /\ InitRec /\ InitList /\ MoreOff("")
SpecBackoff == InitCompute /\ [][ComputeBackoff]_vars

\* one ConcurrencyLimiter used by several callers, with and without scope extractor
InitLimited == InitLimiter /\ CmdOff /\ InitCron /\ BackoffOff /\ InitRec /\ InitList /\ MoreOff("")
SpecLimiter == InitLimited /\ [][NextLimiter]_vars
\* TaskCommanders with and without scope extractor on the default limiter
SpecCommanders == InitLimited /\ [][NextCommanders]_vars

Init == InitCmd /\ InitCron /\ BackoffOff /\ InitLimiter /\ InitRec /\ InitList /\ MoreOff("")
Next == NextCmd
\* the TaskCommander pipeline under concurrent Execute calls
Spec == Init /\ [][Next]_vars

InitSched == InitCron /\ InitCmd /\ taskCfg.Retries = 0 /\ taskCfg.MaxConcurrency = 0
                      /\ taskCfg.Backoff = NoBackoff /\ BackoffOff /\ InitLimiter
                      /\ InitRec /\ InitList /\ MoreOff("")
\* the CronManager under concurrent Register / Update / Delete callers
SpecCron == InitSched /\ [][NextCron]_vars

\* messages and tasks that exercise the validation: keys at and over the limit, an
\* unknown policy, tasks without ID or path
ValidationKeys == {Key256, LongKey}
ValidationMessages ==
    { [JobID |-> "", ScriptPath |-> "", IdempotencyKey |-> d[1], DedupPolicy |-> d[2],
       payloadSize |-> 2,
       Config |-> [Retries |-> 0, MaxConcurrency |-> 0, Backoff |-> NoBackoff]] :
      d \in { <<"", "">>, <<Key256, DedupPolicyDrop>>, <<LongKey, DedupPolicyDrop>>,
              <<Key256, "bogus">> } }
ValidationTasks == { Task(TaskID, TaskPath), Task(TaskID, ""), Task("", TaskPath) }

InitValidate ==
    /\ InitCron
    /\ InitRec /\ InitList /\ MoreOff("")
    /\ BackoffOff
    /\ InitLimiter
    /\ taskCfg = [Retries |-> MaxRetries, MaxConcurrency |-> 1,
                  Backoff |-> Backoff(BackoffFixed, 1, 0, FALSE)]
    /\ taskIdent \in ValidationTasks
    /\ inputs = ValidationMessages
    /\ entries = [k \in ValidationKeys |-> NoEntry]
    /\ sem = [k \in ConcKeys |-> NoChan]
    /\ pc = [c \in Calls |-> "idle"]
    /\ finalMsg = [c \in Calls |-> NoMsg]
    /\ err = [c \in Calls |-> Nil]
    /\ attempt = [c \in Calls |-> 0]
    /\ delay = [c \in Calls |-> 0]
    /\ timerFired = [c \in Calls |-> FALSE]
    /\ release = [c \in Calls |-> ""]
    /\ ret = [c \in Calls |-> Pending]
    /\ count = [c \in Calls |-> 0]
    /\ ctxDone = [c \in Calls |-> FALSE]
\* the TaskCommander pipeline fed with messages at the edge of validity
SpecValidate == InitValidate /\ [][NextCmd]_vars

InitDedup ==
    /\ InitCmd
    /\ InitRec /\ InitList /\ MoreOff("")
    /\ InitCron
    /\ BackoffOff
    /\ InitLimiter
    /\ taskCfg = [Retries |-> MaxRetries, MaxConcurrency |-> 1,
                  Backoff |-> Backoff(BackoffFixed, 1, 0, FALSE)]
\* the TaskCommander pipeline of one task that retries, waits and limits concurrency
SpecDedup == InitDedup /\ [][NextCmd]_vars

InitReconcile ==
    /\ CmdOff
    /\ BackoffOff
    /\ InitLimiter
    /\ InitRec /\ InitList /\ MoreOff("")
    /\ schedules = [id \in SchedIDs |-> NoSched]
    /\ handlers = [s \in 1 .. MaxRecSubs |-> NoHandler]
    /\ nextID = 1
    /\ cpc = [p \in CronProcs |-> "idle"]
    /\ cdef = [p \in CronProcs |-> NoDef]
    /\ existing = [p \in CronProcs |-> NoSched]
    /\ sub = [p \in CronProcs |-> 0]
    /\ cerr = [p \in CronProcs |-> Pending]
\* one caller that registers, updates, deletes and reconciles, one call at a time
SpecReconcile == InitReconcile /\ [][NextReconcile]_vars

InitClones ==
    /\ CmdOff
    /\ InitCron
    /\ BackoffOff
    /\ InitLimiter
    /\ InitRec
    /\ InitList
    /\ MoreOff("")
\* one schedule whose definitions are listed, written to by the caller and ticked
SpecList == InitClones /\ [][NextList]_vars
\* a registered schedule whose ticks write to the message they run on
SpecTicks == InitClones /\ [][NextTicks]_vars

InitAdders ==
    /\ CmdOff /\ InitCron /\ BackoffOff /\ InitLimiter /\ InitRec /\ InitList
    /\ MoreOff("registry")
    /\ InitRegistry
\* goroutines adding tasks to one memoryRegistry concurrently
SpecRegistry == InitAdders /\ [][NextRegistry]_vars

InitStart ==
    /\ CmdOff /\ InitCron /\ BackoffOff /\ InitLimiter /\ InitRec /\ InitList
    /\ MoreOff("runner")
    /\ InitRunner
\* Runner.Start over its creators, with a context that may be cancelled meanwhile
SpecRunner == InitStart /\ [][NextRunner]_vars

InitCreate ==
    /\ CmdOff /\ InitCron /\ BackoffOff /\ InitLimiter /\ InitRec /\ InitList
    /\ MoreOff("creator")
    /\ InitCreator
\* taskCreator.CreateTasks over the scripts of a provider and a list of engines
SpecCreator == InitCreate /\ [][NextCreator]_vars

InitMerging ==
    /\ CmdOff /\ InitCron /\ BackoffOff /\ InitLimiter /\ InitRec /\ InitList
    /\ MoreOff("merge")
    /\ InitMerge
\* mergeConfigDefaults applied to every pair of flag settings
SpecMerge == InitMerging /\ [][MergeCall]_vars

InitSanitizing ==
    /\ CmdOff /\ InitCron /\ BackoffOff /\ InitLimiter /\ InitRec /\ InitList
    /\ MoreOff("sanitize")
    /\ InitSanitize
\* EncodeEnvelope with a sanitizer that writes to what it receives
SpecSanitize == InitSanitizing /\ [][NextSanitize]_vars

InitCodecCalls ==
    /\ CmdOff /\ InitCron /\ BackoffOff /\ InitLimiter /\ InitRec /\ InitList
    /\ MoreOff("codec")
    /\ InitCodec
\* EncodeEnvelope and DecodeEnvelope under every max-bytes option
SpecCodec == InitCodecCalls /\ [][NextCodec]_vars

InitListScripts ==
    /\ CmdOff /\ InitCron /\ BackoffOff /\ InitLimiter /\ InitRec /\ InitList
    /\ MoreOff("files")
    /\ InitFiles
\* ListScripts over up to MaxFiles files, with failing opens, reads and closes
SpecFiles == InitListScripts /\ [][NextFiles]_vars

InitDbCalls ==
    /\ CmdOff /\ InitCron /\ BackoffOff /\ InitLimiter /\ InitRec /\ InitList
    /\ MoreOff("db")
    /\ InitDb
\* GetScript and ListScripts of a DBSourceProvider with any table name
SpecDb == InitDbCalls /\ [][NextDb]_vars

InitSqlExecute ==
    /\ CmdOff /\ InitCron /\ BackoffOff /\ InitLimiter /\ InitRec /\ InitList
    /\ MoreOff("sql")
    /\ InitSql
\* SQLEngine.Execute over every script and transaction setting
SpecSql == InitSqlExecute /\ [][NextSql]_vars

InitEngineContext ==
    /\ CmdOff /\ InitCron /\ BackoffOff /\ InitLimiter /\ InitRec /\ InitList
    /\ MoreOff("timeout")
    /\ InitTimeout
\* an engine deriving the execution context of a script
SpecTimeout == InitEngineContext /\ [][NextTimeout]_vars

\* ================================================================== claims
Max(a, b) == IF a > b THEN a ELSE b

\* the call has returned
Returned(c) == pc[c] = "done"
\* the call carries key k under policy p and passed validation
Carries(c, k, p) ==
    /\ pc[c] # "idle"
    /\ Validate(finalMsg[c]) = Nil
    /\ finalMsg[c].IdempotencyKey = k
    /\ finalMsg[c].DedupPolicy = p
\* the retry loop of the call is over
LoopOver(c) == pc[c] \in {"after", "release", "done"} /\ count[c] >= 1

\* C1: of two returned Execute calls that carry the same non-empty key with policy
\* drop, exactly one invoked the task and the other returned ErrIdempotentDrop
\* without invoking it.
C1_DropExecutesExactlyOnce ==
    (\A c \in Calls : Returned(c) /\ Carries(c, "k1", DedupPolicyDrop))
    => \E a, b \in Calls :
          /\ a # b
          /\ count[a] >= 1
          /\ count[b] = 0
          /\ ret[b] = ErrIdempotentDrop

\* C2: of two returned Execute calls that carry the same non-empty key with policy
\* merge, only one invoked the task and the other returned exactly the error value
\* the executing call returned.
C2_MergeReturnsFirstError ==
    (\A c \in Calls : Returned(c) /\ Carries(c, "k1", DedupPolicyMerge))
    => \E a, b \in Calls :
          /\ a # b
          /\ count[a] >= 1
          /\ count[b] = 0
          /\ ret[b] = ret[a]

\* C3: when a call with a non-empty key and policy drop, merge or replace that passed
\* the pre-check with proceed returns, the tracker entry of its key holds exactly the
\* error the call returns, whichever later stage produced it.
C3_TrackerHoldsReturnedError ==
    [][\A c \in Calls :
         ( /\ pc[c] \in {"quota", "acquire", "release"}
           /\ pc'[c] = "done"
           /\ finalMsg[c].IdempotencyKey # ""
           /\ finalMsg[c].DedupPolicy \in {DedupPolicyDrop, DedupPolicyMerge,
                                           DedupPolicyReplace} )
         => entries'[finalMsg[c].IdempotencyKey] = ret'[c]]_vars

\* C4: the slots held for a key never exceed the limit N of a call that holds one,
\* and an Acquire with limit N succeeds only if fewer than N slots of the key are
\* held at that moment.
C4_AcquireRespectsLimit ==
    /\ [](\A c \in Calls :
            release[c] # "" => sem[release[c]].len <= finalMsg[c].Config.MaxConcurrency)
    /\ [][\A c \in Calls :
            (pc[c] = "acquire" /\ pc'[c] = "exec" /\ release'[c] # "")
            => sem[finalMsg[c].JobID].len < finalMsg[c].Config.MaxConcurrency]_vars

\* C5: every slot a call acquired is released exactly once by the time the call
\* returns: the length of each channel equals the number of calls that hold a slot
\* of it, only calls inside the retry loop or their defers hold one, and once all
\* calls have returned no slot is held.
C5_SlotsReleasedOnReturn ==
    /\ \A k \in ConcKeys : sem[k].len = Cardinality({c \in Calls : release[c] = k})
    /\ \A c \in Calls : release[c] # "" => pc[c] \in {"exec", "sleep", "after", "release"}
    /\ (\A c \in Calls : Returned(c)) => \A k \in ConcKeys : sem[k].len = 0

\* a call that held a slot has returned the context error of the backoff wait and
\* the channel is empty again
C5_Witness ==
    \E c \in Calls :
        /\ Returned(c)
        /\ ret[c] = ErrCtx
        /\ finalMsg[c].Config.MaxConcurrency > 0
        /\ sem[finalMsg[c].JobID].cap > 0
        /\ sem[finalMsg[c].JobID].len = 0

\* C6: the stages run in the order validation, idempotency, quota, concurrency,
\* retry loop: a message over the payload quota never holds a slot and never invokes
\* the task, and a call rejected by the limiter never invokes the task.
C6_StageOrder ==
    \A c \in Calls :
        /\ (pc[c] # "idle" /\ finalMsg[c].payloadSize > PayloadSizeLimit)
           => /\ release[c] = ""
              /\ count[c] = 0
              /\ pc[c] \in {"dedup", "quota", "done"}
        /\ ret[c] \in {ErrQuotaExceeded, ErrConcurrencyLimit, ErrMsgInvalid, ErrIdempotentDrop}
           => count[c] = 0 /\ release[c] = ""

\* a message that asks for a concurrency slot was rejected by the quota checker
C6_Witness ==
    \E c \in Calls :
        /\ Returned(c)
        /\ ret[c] = ErrQuotaExceeded
        /\ finalMsg[c].Config.MaxConcurrency > 0

\* C7 as stated: at most max(R,0)+1 invocations, nil after the first attempt that
\* returns nil, and the error of the last attempt when every attempt failed.
C7_ReturnsLastAttemptError ==
    \A c \in Calls :
        /\ count[c] <= Max(finalMsg[c].Config.Retries, 0) + 1
        /\ LoopOver(c) => ret[c] = err[c]

\* C7 amended: at most max(R,0)+1 invocations; the loop stops at the first attempt
\* that returns nil and the call returns nil; when all max(R,0)+1 attempts failed
\* the call returns the error of the last one; when the last attempt made failed
\* and fewer were made, the backoff wait was aborted and the call returns the
\* context's error.
C7_RetryLoopResult ==
    \A c \in Calls :
        /\ count[c] <= Max(finalMsg[c].Config.Retries, 0) + 1
        /\ (count[c] >= 1 /\ err[c] = Nil) => (LoopOver(c) /\ ret[c] = Nil)
        /\ (LoopOver(c) /\ err[c] # Nil)
           => IF count[c] = Max(finalMsg[c].Config.Retries, 0) + 1
              THEN ret[c] = err[c]
              ELSE ret[c] = ErrCtx

\* a call made two attempts that both failed and returned the error of the second
C7_Witness ==
    \E c \in Calls :
        /\ Returned(c)
        /\ count[c] = 2
        /\ err[c] = EngineErr(c, 1)
        /\ ret[c] = err[c]

\* C8: once the context is cancelled while the call is between two attempts, no
\* further attempt starts and the call returns the context's error.
C8_CancelStopsRetries ==
    [][\A c \in Calls :
         (pc[c] = "sleep" /\ ctxDone[c] /\ pc'[c] # "sleep")
         => (pc'[c] = "after" /\ ret'[c] = ErrCtx)]_vars

\* C9: a schedule held by the manager always has its stored subscription active in
\* the scheduler, and when Update is about to unsubscribe the old subscription the
\* new one has already been added for the same schedule ID.
C9_UpdateKeepsSubscription ==
    /\ \A id \in SchedIDs :
         schedules[id] # NoSched
         => /\ handlers[schedules[id].subscription].active
            /\ handlers[schedules[id].subscription].id = id
    /\ \A p \in CronProcs :
         cpc[p] = "upd_unsub"
         => /\ sub[p] \in 1 .. (nextID - 1)
            /\ handlers[sub[p]].id = cdef[p].ID
            /\ sub[p] # existing[p].subscription

\* an Update has stored its new subscription and not yet unsubscribed the old one:
\* both are active
C9_Witness ==
    \E p \in CronProcs :
        /\ cpc[p] = "upd_unsub"
        /\ handlers[existing[p].subscription].active
        /\ handlers[sub[p]].active
        /\ schedules[cdef[p].ID].subscription = sub[p]

\* C10: a Register whose ID already has a schedule adds no handler, leaves the
\* entries unchanged and does not succeed, also when another Register of the same ID
\* runs concurrently.
C10_DuplicateRegisterRejected ==
    [][\A p \in CronProcs :
         /\ (cpc[p] = "idle" /\ cpc'[p] = "reg_add")
            => schedules[cdef'[p].ID] = NoSched
         /\ (cpc[p] \in {"reg_add", "reg_store"} /\ cpc'[p] # cpc[p]
               /\ schedules[cdef[p].ID] # NoSched)
            => /\ schedules' = schedules
               /\ handlers' = handlers
               /\ cerr'[p] # Nil]_vars

\* C11: once every Register, Update and Delete call has completed, the scheduler
\* holds exactly one active subscription for each schedule ID the manager lists and
\* none for any other ID.
C11_OneSubscriptionPerSchedule ==
    (\A p \in CronProcs : cpc[p] = "idle")
    => \A id \in SchedIDs :
          Cardinality({s \in SubIDs : handlers[s].active /\ handlers[s].id = id})
              = (IF schedules[id] # NoSched THEN 1 ELSE 0)

\* the message is invalid in the claim's sense
Invalid(m) ==
    \/ m.JobID = ""
    \/ m.ScriptPath = ""
    \/ len(m.IdempotencyKey) > 256
    \/ m.DedupPolicy \notin {"", "ignore", "drop", "merge", "replace"}

\* C19: a call whose merged message has an empty JobID or ScriptPath, a key longer
\* than 256 bytes or an unknown policy returns JOB_EXEC_MSG_INVALID, and the step that
\* rejects it writes no tracker entry, takes no slot and invokes no task.
C19_InvalidMessageRejected ==
    /\ [](\A c \in Calls :
            (pc[c] # "idle" /\ Invalid(finalMsg[c]))
            => /\ pc[c] = "done"
               /\ ret[c] = ErrMsgInvalid
               /\ count[c] = 0
               /\ release[c] = "")
    /\ [][\A c \in Calls :
            (pc[c] = "idle" /\ pc'[c] # "idle" /\ Invalid(finalMsg'[c]))
            => (entries' = entries /\ sem' = sem /\ count' = count)]_vars

\* a call with a key of 257 bytes was rejected while the tracker has no entry for it
C19_Witness ==
    \E c \in Calls :
        /\ Returned(c)
        /\ finalMsg[c].IdempotencyKey = LongKey
        /\ finalMsg[c].JobID # ""
        /\ finalMsg[c].ScriptPath # ""
        /\ ret[c] = ErrMsgInvalid
        /\ entries[LongKey] = NoEntry

\* C17 as stated: every returned call with policy replace has invoked the task.
C17_ReplaceAlwaysExecutes ==
    \A c \in Calls :
        (Returned(c) /\ Carries(c, "k1", DedupPolicyReplace)) => count[c] >= 1

\* C17 amended: the pre-check of a call with policy replace never drops or merges it,
\* whatever entry earlier calls left for the key, and resets the entry; the call then
\* invokes the task unless the quota checker or the limiter rejects it.
C17_ReplacePassesPreCheck ==
    /\ [](\A c \in Calls :
            (Returned(c) /\ Carries(c, "k1", DedupPolicyReplace))
            => (count[c] >= 1 \/ ret[c] \in {ErrQuotaExceeded, ErrConcurrencyLimit}))
    /\ [][\A c \in Calls :
            (pc[c] = "dedup" /\ pc'[c] # "dedup" /\ Carries(c, "k1", DedupPolicyReplace))
            => (pc'[c] = "quota" /\ entries'["k1"] = Nil)]_vars

\* a call with policy drop has returned the task's error, which it wrote to the entry,
\* and the pre-check of a later call with policy replace has reset the entry
C17_Witness ==
    \E a, b \in Calls :
        /\ Returned(a)
        /\ Carries(a, "k1", DedupPolicyDrop)
        /\ ret[a].kind = "engine"
        /\ pc[b] = "quota"
        /\ Carries(b, "k1", DedupPolicyReplace)
        /\ entries["k1"] = Nil

\* the call takes no part in deduplication
NoDedup(c) ==
    /\ pc[c] # "idle"
    /\ Validate(finalMsg[c]) = Nil
    /\ \/ finalMsg[c].IdempotencyKey = ""
       \/ finalMsg[c].DedupPolicy \in {"", DedupPolicyIgnore}

\* C18 as stated: a returned call with an empty key, an empty policy or policy ignore
\* has invoked the task, and none of its steps changes a tracker entry.
C18_IgnoreAlwaysExecutes ==
    /\ [](\A c \in Calls : (Returned(c) /\ NoDedup(c)) => count[c] >= 1)
    /\ [][\A c \in Calls :
            (NoDedup(c) /\ pc'[c] # pc[c]) => entries' = entries]_vars

\* C18 amended: the pre-check of a call with an empty key, an empty policy or policy
\* ignore always decides proceed, none of its steps creates or changes a tracker
\* entry, and it invokes the task unless the quota checker or the limiter rejects it.
C18_IgnoreLeavesTrackerAlone ==
    /\ [](\A c \in Calls :
            (Returned(c) /\ NoDedup(c))
            => (count[c] >= 1 \/ ret[c] \in {ErrQuotaExceeded, ErrConcurrencyLimit}))
    /\ [][\A c \in Calls :
            (NoDedup(c) /\ pc'[c] # pc[c])
            => /\ entries' = entries
               /\ pc[c] = "dedup" => pc'[c] = "quota"]_vars

\* a call with a key and policy ignore has invoked the task and returned, and the
\* tracker still has no entry for the key
C18_Witness ==
    \E c \in Calls :
        /\ Returned(c)
        /\ finalMsg[c].IdempotencyKey = "k1"
        /\ finalMsg[c].DedupPolicy = DedupPolicyIgnore
        /\ count[c] >= 1
        /\ entries["k1"] = NoEntry

\* the cap of the exponential strategy: MaxInterval, 5s when it is unset
Cap(cfg) == IF cfg.MaxInterval <= 0 THEN 5000 ELSE cfg.MaxInterval

\* C20: for every attempt >= 1 and every configuration with strategy exponential the
\* delay computeBackoffDelay returns is at most MaxInterval (5s when unset).
C20_ExponentialDelayCapped ==
    ( /\ backoffDelay # NotComputed
      /\ backoffArgs.attempt >= 1
      /\ backoffArgs.cfg.Strategy = BackoffExponential )
    => backoffDelay <= Cap(backoffArgs.cfg)

\* the caller holds a slot of the job and scope of message m
HoldsSlotOf(h, m) ==
    /\ lcall[h].ret = Nil
    /\ lcall[h].key # ""
    /\ lcall[h].msg = m

\* the key JobID|scope of a message, JobID alone for the empty scope
ScopedKey(m) == IF m.tenant = "" THEN m.JobID ELSE m.JobID \o "|" \o m.tenant

\* every slot held was acquired with the scope extractor configured
AllScoped ==
    \A g \in Holders :
        (lcall[g].ret = Nil /\ lcall[g].key # "") => lcall[g].key = ScopedKey(lcall[g].msg)

\* C16: with a scope extractor configured a slot is counted under JobID|scope, and
\* under the JobID alone when the extractor returns the empty string: an Acquire
\* that succeeds holds exactly that key, and an Acquire fails only when a slot of the
\* same job and the same scope is held, never because of slots of another scope.
C16_ScopesCountedSeparately ==
    [][\A h \in Holders :
         ( /\ scopeExtractor = TenantExtractor
           /\ AllScoped
           /\ lcall'[h] # lcall[h]
           /\ lcall'[h].limit > 0 )
         => /\ lcall'[h].ret = Nil => lcall'[h].key = ScopedKey(lcall'[h].msg)
            /\ lcall'[h].ret = ErrConcurrencyLimit
               => \E g \in Holders \ {h} : HoldsSlotOf(g, lcall'[h].msg)]_vars

\* all slots of scope a are held, and an Acquire for scope b of the same job has
\* succeeded
C16_Witness ==
    \E g, h \in Holders :
        /\ scopeExtractor = TenantExtractor
        /\ HoldsSlotOf(g, [JobID |-> TaskID, tenant |-> "a"])
        /\ lsem[lcall[g].key].len = lsem[lcall[g].key].cap
        /\ HoldsSlotOf(h, [JobID |-> TaskID, tenant |-> "b"])
        /\ lcall[h].key = "job-1|b"

\* the IDs a list of the result names
Listed(list) == { list[i] : i \in DOMAIN list }
\* the IDs registered in a schedules map
Registered(scheds) == { id \in SchedIDs : scheds[id] # NoSched }
\* the IDs of the desired definitions
DesiredIDs == { id \in SchedIDs : rtargets[id] # NoDef }
\* no ID is listed twice, in one list or in two
ListedOnce ==
    /\ Cardinality(Listed(result.Added)) = Len(result.Added)
    /\ Cardinality(Listed(result.Updated)) = Len(result.Updated)
    /\ Cardinality(Listed(result.Removed)) = Len(result.Removed)
    /\ Listed(result.Added) \cap Listed(result.Updated) = {}
    /\ Listed(result.Added) \cap Listed(result.Removed) = {}
    /\ Listed(result.Updated) \cap Listed(result.Removed) = {}

\* C12: when Reconcile returns without error, the registered IDs are exactly the
\* desired IDs, Added lists exactly the desired IDs that were not registered before,
\* Removed exactly the IDs registered before that are not desired, and Updated
\* exactly the IDs registered before whose resolved definition differs from the
\* stored one.
C12_ReconcileReachesDesired ==
    (rpc = "returned" /\ rerr = Nil) =>
        /\ Registered(schedules) = DesiredIDs
        /\ ListedOnce
        /\ Listed(result.Added) = DesiredIDs \ Registered(rstart)
        /\ Listed(result.Removed) = Registered(rstart) \ DesiredIDs
        /\ Listed(result.Updated) =
               { id \in DesiredIDs \cap Registered(rstart) :
                   resolve(rtargets[id]).resolved # rstart[id].definition }

\* C13: when Reconcile stops early, on a cancelled context or a failed step, the
\* result lists exactly the IDs whose addition, update or removal completed, and
\* the schedules are those of the start with exactly these changes applied.
C13_EarlyStopListsCompleted ==
    (rpc = "returned" /\ rerr # Nil) =>
        /\ ListedOnce
        /\ \A id \in SchedIDs :
             IF id \in Listed(result.Added)
             THEN /\ rstart[id] = NoSched
                  /\ schedules[id] # NoSched
                  /\ schedules[id].definition = resolve(rtargets[id]).resolved
             ELSE IF id \in Listed(result.Updated)
             THEN /\ rstart[id] # NoSched
                  /\ schedules[id] # NoSched
                  /\ schedules[id].definition = resolve(rtargets[id]).resolved
                  /\ schedules[id].subscription # rstart[id].subscription
             ELSE IF id \in Listed(result.Removed)
             THEN /\ rstart[id] # NoSched
                  /\ schedules[id] = NoSched
             ELSE schedules[id] = rstart[id]

\* a Reconcile that stopped with an error after it had completed a change
C13_Witness ==
    /\ rpc = "returned"
    /\ rerr # Nil
    /\ Len(result.Added) + Len(result.Updated) + Len(result.Removed) > 0

\* C15: every handler the CronManager hands to the scheduler has MaxRetries = 0,
\* whatever Retries the task or the definition declares, and the message it
\* executes carries the merged Config.Retries: the definition's when it is not
\* zero, the task's otherwise.
C15_HandlerRetriesZero ==
    /\ \A n \in DOMAIN handlers :
         handlers[n] # NoHandler => handlers[n].cfg.MaxRetries = 0
    /\ (rpc = "returned" /\ rerr = Nil) =>
         \A id \in Listed(result.Added) \cup Listed(result.Updated) :
            LET h == handlers[schedules[id].subscription]
            IN  /\ h.active
                /\ h.id = id
                /\ h.cfg.MaxRetries = 0
                /\ h.msg.Retries = IF rtargets[id].Retries # 0
                                   THEN rtargets[id].Retries
                                   ELSE cronTaskConfig.Retries

\* a Reconcile that scheduled one definition overriding Retries and one that does not
C15_Witness ==
    /\ rpc = "returned"
    /\ rerr = Nil
    /\ \E a, b \in Listed(result.Added) \cup Listed(result.Updated) :
         /\ rtargets[a].Retries = 3
         /\ rtargets[b].Retries = 0
         /\ handlers[schedules[a].subscription].msg.Retries = 3
         /\ handlers[schedules[b].subscription].msg.Retries = cronTaskConfig.Retries

\* the value read at reference r
At(h, r) == IF r = 0 THEN "nil" ELSE h[r].val
\* what a reader of message m sees: the entry of Parameters and of its nested map,
\* Result.Status and the entry of Result.Metadata, the entry of Config.Env
Seen(h, m) ==
    <<At(h, m.Parameters),
      IF m.Parameters = 0 THEN "nil" ELSE At(h, h[m.Parameters].ref),
      At(h, m.Result),
      IF m.Result = 0 THEN "nil" ELSE At(h, h[m.Result].ref),
      At(h, m.Env)>>
\* a step that writes into the heap without allocating
WritesInPlace == Len(heap') = Len(heap) /\ heap' # heap

\* C14: no write a caller performs through a definition List returned (Parameters,
\* Result, the maps inside Config) changes what a later List returns or the message
\* later ticks execute.
C14_ListReturnsDeepClones ==
    [][(listedMsg # NoRefMsg /\ WritesInPlace) =>
          /\ Seen(heap', storedMsg) = Seen(heap, storedMsg)
          /\ Seen(heap', jobMsg) = Seen(heap, jobMsg)]_vars

\* Interval as computeBackoffDelay reads it: 100ms when it is unset
EffInterval(cfg) == IF cfg.Interval <= 0 THEN 100 ELSE cfg.Interval
\* 2^n
RECURSIVE Pow2(_)
Pow2(n) == IF n <= 0 THEN 1 ELSE 2 * Pow2(n - 1)
Min(a, b) == IF a <= b THEN a ELSE b

\* C21: with jitter disabled and attempt >= 1, computeBackoffDelay returns 0 for
\* strategy none, Interval for strategy fixed on every attempt, and
\* min(Interval * 2^(attempt-1), MaxInterval) for strategy exponential (Interval and
\* MaxInterval read with their defaults when unset).
C21_DelayWithoutJitter ==
    ( /\ backoffDelay # NotComputed
      /\ backoffArgs.attempt >= 1
      /\ ~backoffArgs.cfg.Jitter )
    => LET cfg == backoffArgs.cfg
       IN  /\ cfg.Strategy = BackoffNone => backoffDelay = 0
           /\ cfg.Strategy = BackoffFixed => backoffDelay = EffInterval(cfg)
           /\ cfg.Strategy = BackoffExponential =>
                backoffDelay = Min(EffInterval(cfg) * Pow2(backoffArgs.attempt - 1),
                                   Cap(cfg))

\* the goroutines whose Add of a task with this ID returned nil
Succeeded(id) == { g \in Adders : apc[g] = "done" /\ atask[g].id = id /\ aret[g] = Nil }
\* the goroutines that add a task with this ID
AddersOf(id) == { g \in Adders : atask[g].id = id }

\* C22: Add of a task whose ID is registered returns an error and leaves the
\* registered task in place; of the goroutines that Add tasks with one ID
\* concurrently exactly one succeeds, and List never holds two tasks with one ID.
C22_RegistryUniqueIDs ==
    /\ [](\A id \in RegIDs :
            /\ Cardinality(Succeeded(id)) <= 1
            /\ \A g \in Succeeded(id) : jobs[id] = atask[g]
            /\ ( AddersOf(id) # {} /\ \A g \in AddersOf(id) : apc[g] = "done" )
                 => Cardinality(Succeeded(id)) = 1
            /\ \A g \in AddersOf(id) :
                 (apc[g] = "done" /\ aret[g] # Nil) =>
                     /\ aret[g] = Sentinel("already exists")
                     /\ jobs[id] # NoTask
                     /\ jobs[id] # atask[g])
    /\ [](\A a, b \in RegistryList(jobs) : a.id = b.id => a = b)
    /\ [][\A id \in RegIDs : jobs[id] # NoTask => jobs'[id] = jobs[id]]_vars

\* three goroutines added tasks with one ID: one succeeded, two were rejected
C22_Witness ==
    /\ \A g \in Adders : apc[g] = "done" /\ atask[g].id = "task-1"
    /\ Cardinality(Succeeded("task-1")) = 1
    /\ Cardinality({ g \in Adders : aret[g] = Sentinel("already exists") }) = 2

\* the positions of the events about this task
EventsOf(task) == { i \in DOMAIN events : events[i].Task = task }
\* the positions of the events that carry this error and no task
EventsWith(e) == { i \in DOMAIN events : events[i].Err = e /\ events[i].Task = NoTask }
\* the creators that failed, the tasks the other creators returned
FailedCreators == { i \in DOMAIN creators : creators[i].err # Nil }
ReturnedTasks ==
    UNION { { TaskOf(creators, i, k) : k \in DOMAIN creators[i].ids } :
            i \in DOMAIN creators \ FailedCreators }

\* C23: when Start runs with an uncancelled context, every task a creator returned
\* has exactly one event, registered when its Add succeeded and registration_failed
\* when it failed; every creator was called, failed ones included, whatever failed
\* before; Start returns nil.
C23_StartProcessesEveryTask ==
    (rnpc = "returned" /\ ~rnctx) =>
        /\ rnret = Nil
        /\ \A i \in DOMAIN creators : calls[i] = 1
        /\ Cardinality(EventsWith(ErrCreator)) = Cardinality(FailedCreators)
        /\ Len(events) = Cardinality(ReturnedTasks) + Cardinality(FailedCreators)
        /\ \A t \in ReturnedTasks :
             /\ Cardinality(EventsOf(t)) = 1
             /\ \A i \in EventsOf(t) :
                  /\ events[i].TaskID = t.id
                  /\ IF jobs[t.id] = t
                     THEN events[i].Type = TaskEventRegistered /\ events[i].Err = Nil
                     ELSE /\ events[i].Type = TaskEventRegistrationFailed
                          /\ events[i].Err = Sentinel("already exists")
                          /\ jobs[t.id] # NoTask

\* a Start that met a failed creator and a duplicate ID and still registered a task
\* after both
C23_Witness ==
    /\ rnpc = "returned"
    /\ ~rnctx
    /\ rnret = Nil
    /\ creators[1].err # Nil
    /\ \E i, j \in DOMAIN events :
         /\ i < j
         /\ events[i].Err = Sentinel("already exists")
         /\ events[j].Type = TaskEventRegistered

\* C24: a Start whose context was cancelled before it finished returns the context's
\* error and emits exactly one registration_failed event carrying it, the last
\* event; the step that observes the cancellation calls no creator and adds no
\* task, and no creator after the one Start was at is ever called.
C24_CancelledStartStops ==
    /\ []((rnpc = "returned" /\ rnctx) =>
            /\ rnret = ErrCtx
            /\ Cardinality(EventsWith(ErrCtx)) = 1
            /\ events[Len(events)] =
                   TaskEvent(TaskEventRegistrationFailed, NoTask, ErrCtx)
            /\ \A i \in DOMAIN creators :
                 /\ calls[i] <= 1
                 /\ i > rci => calls[i] = 0
            /\ \A t \in ReturnedTasks : Cardinality(EventsOf(t)) <= 1
            /\ \A id \in RegIDs :
                 jobs[id] # NoTask => Cardinality(EventsOf(jobs[id])) = 1)
    /\ [][rnret' = ErrCtx => (jobs' = jobs /\ calls' \in {calls, [calls EXCEPT ![rci] = 1]}
                               /\ (calls' # calls => creators[rci].err # Nil))]_vars

\* a Start cancelled after it had registered a task and before its second creator
C24_Witness ==
    /\ rnpc = "returned"
    /\ rnret = ErrCtx
    /\ rci = 2
    /\ calls[2] = 0
    /\ Len(events) >= 2
    /\ events[1].Type = TaskEventRegistered

\* the first engine of the list that can handle the path, 0 when there is none
FirstCapable(path) ==
    LET can == { i \in DOMAIN engines : extLower(path) \in engines[i].FileExtensions }
    IN  IF can = {} THEN 0 ELSE CHOOSE i \in can : \A j \in can : i <= j
\* the script at position i becomes a task
Accepted(i) ==
    /\ FirstCapable(scripts[i]) # 0
    /\ extLower(scripts[i]) \notin engines[FirstCapable(scripts[i])].rejects
\* the positions of the accepted scripts, in source order
RECURSIVE AcceptedFrom(_)
AcceptedFrom(i) ==
    IF i > Len(scripts) THEN <<>>
    ELSE IF Accepted(i) THEN <<i>> \o AcceptedFrom(i + 1)
    ELSE AcceptedFrom(i + 1)
\* the positions of the scripts that are skipped, in source order
RECURSIVE SkippedFrom(_)
SkippedFrom(i) ==
    IF i > Len(scripts) THEN <<>>
    ELSE IF ~Accepted(i) THEN <<i>> \o SkippedFrom(i + 1)
    ELSE SkippedFrom(i + 1)

\* C25: CreateTasks returns, in source order, exactly the tasks of the scripts that
\* some engine can handle and that the first such engine of the list parses; every
\* other script has one registration_failed event and is skipped, and the scripts
\* after it are still processed.
C25_CreateTasksKeepsParsedScripts ==
    (tcpc = "returned" /\ tcret.err = Nil) =>
        LET acc == AcceptedFrom(1)
            skp == SkippedFrom(1)
        IN  /\ Len(tcret.tasks) = Len(acc)
            /\ \A k \in DOMAIN acc :
                 tcret.tasks[k] =
                     RTask(scripts[acc[k]], engines[FirstCapable(scripts[acc[k]])].name, 0)
            /\ Len(tcevents) = Len(skp)
            /\ \A k \in DOMAIN skp :
                 /\ tcevents[k].Type = TaskEventRegistrationFailed
                 /\ tcevents[k].ScriptPath = scripts[skp[k]]
                 /\ tcevents[k].Err # Nil

\* a CreateTasks that skipped a script no engine handles and one its first capable
\* engine rejects although a later engine parses it, and kept a script after both
C25_Witness ==
    /\ tcpc = "returned"
    /\ tcret.err = Nil
    /\ Len(scripts) = 3
    /\ Len(engines) = 2
    /\ FirstCapable(scripts[1]) = 0
    /\ FirstCapable(scripts[2]) = 1
    /\ ~Accepted(2)
    /\ CanHandle(engines[2], scripts[2])
    /\ ParseJob(engines[2], scripts[2]).err = Nil
    /\ Accepted(3)
    /\ Len(tcret.tasks) = 1

\* C26: every boolean field of Config and of its Backoff sub-struct is true in
\* mergeConfigDefaults(base, override) exactly when it is true in base or in
\* override; an override never turns a true flag of the base to false.
C26_MergePromotesFlags ==
    merged.done =>
        LET b == mergeArgs.base
            o == mergeArgs.override
            m == merged.cfg
        IN  /\ m.NoTimeout = (b.NoTimeout \/ o.NoTimeout)
            /\ m.Debug = (b.Debug \/ o.Debug)
            /\ m.RunOnce = (b.RunOnce \/ o.RunOnce)
            /\ m.ExitOnError = (b.ExitOnError \/ o.ExitOnError)
            /\ m.Transaction = (b.Transaction \/ o.Transaction)
            /\ m.Backoff.Jitter = (b.Backoff.Jitter \/ o.Backoff.Jitter)

\* a merge whose base has flags set that the override leaves false, Jitter among
\* them, while the override sets another Backoff field
C26_Witness ==
    /\ merged.done
    /\ mergeArgs.base.Debug /\ ~mergeArgs.override.Debug
    /\ mergeArgs.base.Backoff.Jitter /\ ~mergeArgs.override.Backoff.Jitter
    /\ mergeArgs.override.Backoff.Strategy = BackoffFixed
    /\ ~mergeArgs.base.RunOnce /\ mergeArgs.override.RunOnce
    /\ merged.cfg.Debug /\ merged.cfg.Backoff.Jitter /\ merged.cfg.RunOnce

\* C27: for every sanitizer and every Params map, nested maps and slices
\* included, EncodeEnvelope hands the sanitizer a copy and leaves the caller's
\* map as it was, whatever the sanitizer writes.
C27_SanitizerIsolation ==
    spc \in {"sanitizing", "returned"} =>
        /\ pcaller # 0 => sarg # pcaller
        /\ deepValue(pheap, pcaller) = pbefore

\* the ceiling the caller configured: the option's value, 64 KiB without option
ConfiguredMax == IF eopt.given THEN eopt.limit ELSE DefaultEnvelopeMaxBytes

\* C28: EncodeEnvelope never returns a payload, and DecodeEnvelope never returns
\* an envelope, larger than the configured maximum (64 KiB when none is
\* configured); an oversize payload yields a validation error, for every value
\* of the max-bytes option.
C28_SizeCeiling ==
    /\ encoded.kind = "payload" => encoded.size <= ConfiguredMax
    /\ decoded.kind = "envelope" => decoded.size <= ConfiguredMax
    /\ (encoded.kind \in {"payload", "validation"} /\ encoded.size > ConfiguredMax)
           => encoded.kind = "validation"

\* C29: once ListScripts has returned (success, read error, size-limit error or
\* context cancellation) every file it opened has been closed: opens = closes;
\* while it runs, at most the one file it is reading is open.
C29_OpensEqualCloses ==
    /\ fpc = "returned" => (opens = closes /\ ~fopen)
    /\ opens = closes + (IF fopen THEN 1 ELSE 0)

\* ListScripts returned the context's error after it had appended one script and
\* opened a second file, and both files were closed
C29_Witness ==
    /\ fpc = "returned"
    /\ fret = "ctx"
    /\ opens = 2
    /\ closes = 2
    /\ ferr = ""
    /\ fscripts = 1

\* the table name has a character outside [A-Za-z0-9_.]
HasForeignChar == \E i \in DOMAIN dbTable : dbTable[i] \notin WordChars \cup {"."}

\* C30: with a table name holding any character outside [A-Za-z0-9_.], GetScript
\* and ListScripts both return an error before any query is issued.
C30_UnsafeTableNeverQueried ==
    (dbCall \in {"GetScript", "ListScripts"} /\ HasForeignChar) =>
        /\ dbRet.kind = "invalid_table"
        /\ dbRet.queries = 0

\* ListScripts refused a name with a foreign character between word characters
C30_Witness ==
    /\ dbCall = "ListScripts"
    /\ dbTable = <<"t", ";", "7">>
    /\ dbRet = DbResult("invalid_table", 0)

\* C31: with Config.Transaction true or Config.Metadata["transaction"] true the
\* engine runs every statement inside one transaction that ends in exactly one
\* way: commit after all statements succeeded, or rollback after the first
\* failing statement, after which no statement runs and Execute returns an error.
C31_TransactionWhenAsked ==
    (sqpc = "returned" /\ (sqCfg.Transaction \/ sqCfg.Meta = "true")) =>
        \/ sqRet.kind = "begin_error" /\ sqTx = <<>> /\ sqRan = <<>>
        \/ /\ sqTx = <<"begin", "commit">>
           /\ \A i \in DOMAIN sqScript : sqScript[i]
           /\ Len(sqRan) = Len(sqScript)
        \/ /\ sqTx = <<"begin", "rollback">>
           /\ sqRet.kind = "statement_error"
           /\ ~sqScript[sqRet.index]
           /\ \A i \in 1 .. sqRet.index - 1 : sqScript[i]
           /\ Len(sqRan) = sqRet.index

\* C39: a statement that fails in non-transactional mode makes Execute return an
\* error.
C39_DirectFailureReturned ==
    (sqpc = "returned" /\ ~useTransaction(sqCfg) /\ \E i \in DOMAIN sqScript : ~sqScript[i])
        => sqRet # SqlNil

\* C32: an Execute call that the quota checker or the concurrency limiter
\* rejects never invoked the task and leaves the idempotency tracker as it was
\* before the call: while it is the only call made so far, the tracker is still
\* empty, and no call is dropped unless a call with its key reached the task.
C32_RejectedCallLeavesTracker ==
    /\ \A c \in Calls :
         ( /\ Returned(c)
           /\ ret[c] \in {ErrQuotaExceeded, ErrConcurrencyLimit}
           /\ \A d \in Calls \ {c} : pc[d] = "idle" )
         => /\ count[c] = 0
            /\ \A k \in IdemKeys : entries[k] = NoEntry
    /\ \A b \in Calls :
         (Returned(b) /\ ret[b] = ErrIdempotentDrop)
         => \E a \in Calls \ {b} :
              /\ finalMsg[a].IdempotencyKey = finalMsg[b].IdempotencyKey
              /\ (Returned(a) => count[a] >= 1)

\* C33: an Update that returns an error leaves every stored definition, every
\* subscription and the scheduler's handlers as they were: the steps of an Update
\* up to its error return change none of them, and an Update that has stored its
\* new entry returns nil.
C33_FailedUpdateChangesNothing ==
    [][\A p \in CronProcs :
         /\ ( /\ cpc[p] \in {"idle", "upd_add"}
              /\ cpc'[p] = "idle"
              /\ cerr'[p] \notin {Nil, Pending}
              /\ (cpc[p] = "idle" => cerr'[p] # cerr[p]) )
            => /\ schedules' = schedules
               /\ handlers' = handlers
               /\ nextID' = nextID
         /\ (cpc[p] = "idle" /\ cpc'[p] = "upd_add")
            => /\ schedules' = schedules
               /\ handlers' = handlers
         /\ (cpc[p] \in {"upd_store", "upd_unsub"} /\ cpc'[p] = "idle")
            => cerr'[p] = Nil]_vars

\* one caller alone registered s1 and then called Update for it with a task the
\* registry lacks: the Update returned the error, s1 keeps its active subscription
C33_Witness ==
    \E p \in CronProcs :
        /\ cpc[p] = "idle"
        /\ cerr[p] = ErrCron("task not found")
        /\ \A q \in CronProcs \ {p} : cpc[q] = "idle" /\ cerr[q] = Pending
        /\ schedules["s1"] # NoSched
        /\ handlers[schedules["s1"].subscription].active
        /\ nextID = 2

\* C34: once Delete(id) has returned nil, id stays absent from List and without
\* active subscription until a Register(id) succeeds, also with an Update(id) in
\* progress: only Register's store makes an absent ID present again.
C34_DeletedStaysDeleted ==
    [][\A id \in SchedIDs :
         (schedules[id] = NoSched /\ schedules'[id] # NoSched)
         => \E p \in CronProcs : cpc[p] = "reg_store" /\ cpc'[p] = "idle"]_vars

\* C35: each tick runs on its own clone of the resolved message: no write the
\* task or engine performs on the message of one tick (Parameters, Result, the
\* maps inside Config) changes the message later ticks are cloned from or the
\* definition List returns.
C35_TickWritesStayInTick ==
    [][(tickMsg # NoRefMsg /\ WritesInPlace) =>
          /\ Seen(heap', jobMsg) = Seen(heap, jobMsg)
          /\ Seen(heap', storedMsg) = Seen(heap, storedMsg)]_vars

\* what a successful Reconcile of the targets leaves stored under id
leftBy(targets, id) ==
    IF targets[id] = NoDef THEN NoDef ELSE resolve(targets[id]).resolved

\* C36: a Reconcile that succeeds on a manager holding exactly what a successful
\* Reconcile of the same desired list leaves returns empty Added, Updated and
\* Removed and makes no AddHandler or Unsubscribe call: no stored subscription
\* changes, whatever the message of a definition carries
C36_SecondReconcileIsEmpty ==
    (/\ rpc = "returned"
     /\ rerr = Nil
     /\ \A id \in SchedIDs : rstart[id].definition = leftBy(rtargets, id))
    => (result = NoResult /\ schedules = rstart)

\* C37: when Register (and so Update and Reconcile, which resolve the definition
\* the same way) returns, the caller's def.Message.Parameters map holds exactly
\* the entries the caller put there
C37_CallerParametersUntouched ==
    [][(~Scheduled /\ Scheduled' /\ callerMsg'.Parameters # 0) =>
          \E sh \in CallerShapes :
              /\ callerBuild(sh).msg = callerMsg'
              /\ callerBuild(sh).heap[callerMsg'.Parameters]
                     = heap'[callerMsg'.Parameters]]_vars

\* C38: a TaskCommander configured without scope extractor counts every slot it
\* holds under the JobID alone, also when commanders with a scope extractor use
\* the same limiter and have executed before
C38_UnscopedCountsByJobID ==
    \A h \in Holders :
        (commanderScope[h] = NoExtractor /\ lcall[h].ret = Nil /\ lcall[h].key # "")
        => lcall[h].key = lcall[h].msg.JobID

\* C40: for a message whose Config has NoTimeout set, the execution context carries
\* no engine-default timeout: it has the deadline of the inbound context, and no
\* deadline when the inbound context has none
C40_NoTimeoutKeepsInboundDeadline ==
    (etpc = "done" /\ etNoTimeout) => etDeadline = etInbound

====
